---- MODULE Spec2Model ----
(***************************************************************************)
(* Triangle-mesh topology engine of TSExam (problem 1): mesh construction,  *)
(* edge -> triangle adjacency, orientation propagation, connected           *)
(* components, closedness and void detection.                               *)
(*                                                                          *)
(* Conventions                                                              *)
(*  - A Point is a tuple <<x, y, z>> of integers, each of which names a    *)
(*    double: a small whole number, or a reserved value for NaN, -0.0 and   *)
(*    a few large powers of two. Coordinates are compared as doubles        *)
(*    compare, and the arithmetic on them is IEEE double arithmetic, every  *)
(*    operation rounded to the nearest double.                              *)
(*  - A Triangle is a record [a, b, c] of Points.                           *)
(*  - Triangle indices are 0-based as in the code; the triangle with index  *)
(*    i is triangles_[i + 1] of the TLA+ sequence.                          *)
(*  - static_cast<std::size_t>(-1) is written -1: the only thing the code   *)
(*    does with it is to index containers of size N, and -1 is outside      *)
(*    [0, N) exactly as 2^64 - 1 is.                                        *)
(***************************************************************************)
EXTENDS Integers, Sequences, FiniteSets, TLC

\* ------------------------------------------------------------------ bounds
\* longest triangle list drawn freely from TriangleUniverse
MaxTriangles == 2
\* seeds 0 .. MaxSeed are tried (in range or not, depending on the mesh)
MaxSeed == 7
\* positions of the component list that callers pass on
MaxComponents == 3
\* longest sequence of text items an STL text is drawn from
MaxItems == 4
\* most segments of a freely drawn segment buffer
MaxSegments == 3

\* --------------------------------------------------------------- constants
kBoundaryTriangleIndex == -1

\* width of the model's size_t: the hash functors are computed on the low
\* HashBits bits of the 64-bit values
HashBits == 16
HashModulus == 65536
\* low 16 bits of 0x9e3779b97f4a7c15
kGoldenRatio == 31765

\* ------------------------------------------------------ doubles
\* the double NaN and the double -0.0
NaN == 2147483647
NegZero == -2147483647

\* the number a double that is no NaN stands for
DoubleValue(x) == IF x = NegZero THEN 0 ELSE x

\* operator< and operator== of double
DoubleLess(x, y) == x # NaN /\ y # NaN /\ DoubleValue(x) < DoubleValue(y)
DoubleEqual(x, y) == x # NaN /\ y # NaN /\ DoubleValue(x) = DoubleValue(y)

\* std::hash<double>: 0 for both zeros, else a hash of the bit pattern
HashDouble(x) ==
    IF x = 0 \/ x = NegZero THEN 0
    ELSE IF x = NaN THEN 32760
    ELSE ((x % HashModulus) * 40503 + 977) % HashModulus

\* a ^ b on n bits
RECURSIVE BitXor(_, _, _)
BitXor(a, b, n) ==
    IF n = 0 THEN 0
    ELSE (((a % 2) + (b % 2)) % 2) + 2 * BitXor(a \div 2, b \div 2, n - 1)

\* hash ^= h + 0x9e3779b97f4a7c15ULL + (hash << 6) + (hash >> 2)
HashCombine(hash, h) ==
    BitXor(hash,
           (h + kGoldenRatio + ((hash * 64) % HashModulus) + (hash \div 4)) % HashModulus,
           HashBits)

\* ------------------------------------------------------ double arithmetic
\* A double the arithmetic works on is a record: [m, e] names the double
\* nearest to m * 10^(-e), [m, e2, big] is a double given exactly (see below).

\* the m of an infinity and of a NaN whose sign bit is set (see stl_io.cpp)
Infinity == 2147483646
NegInfinity == -2147483646
NegNaN == 2147483645

RECURSIVE Pow10(_)
Pow10(n) == IF n <= 0 THEN 1 ELSE 10 * Pow10(n - 1)

RECURSIVE Normalize(_, _)
Normalize(m, e) ==
    IF m = 0 THEN [m |-> 0, e |-> 0]
    ELSE IF m % 10 = 0 THEN Normalize(m \div 10, e - 1)
    ELSE [m |-> m, e |-> e]

Special(m) == [m |-> m, e |-> 0]

SignedZero(negative) == Special(IF negative THEN NegZero ELSE 0)

SignedInfinity(negative) == Special(IF negative THEN NegInfinity ELSE Infinity)

Dec(m, e) == Normalize(m, e)

IsNaN(v) == v.m \in {NaN, NegNaN}

IsInfinite(v) == v.m \in {Infinity, NegInfinity}

\* the sign bit
IsNegative(v) == v.m < 0 \/ v.m = NegNaN

\* the mantissa of a finite double as a number (both zeros are 0)
Mantissa(v) == IF v.m = NegZero THEN 0 ELSE v.m

IsZero(v) == v.m \in {0, NegZero}

Max(a, b) == IF a >= b THEN a ELSE b

\* the NaN an invalid operation (inf - inf, 0 * inf) gives on x86-64: the
\* default NaN, whose sign bit is set
DefaultNaN == Special(NegNaN)

\* --- on which side of a decimal its double lies
\* Natural numbers of any size, as the sequence of their digits to the base
\* kLimb, least significant first and without leading zero (zero is <<>>).
kLimb == 10000

RECURSIVE BigFromInt(_)
BigFromInt(n) == IF n = 0 THEN <<>> ELSE <<n % kLimb>> \o BigFromInt(n \div kLimb)

\* The sums over the limbs are worked by halves, the carry of the lower half
\* going into the upper one, so that long numbers need no deep recursion.
\* the limbs lo..hi of x * c + carry, followed by the carry out of them
RECURSIVE TimesLimbs(_, _, _, _, _)
TimesLimbs(x, c, carry, lo, hi) ==
    IF lo = hi
    THEN << (x[lo] * c + carry) % kLimb, (x[lo] * c + carry) \div kLimb >>
    ELSE LET mid == (lo + hi) \div 2
             low == TimesLimbs(x, c, carry, lo, mid)
         IN  SubSeq(low, 1, mid - lo + 1)
             \o TimesLimbs(x, c, low[mid - lo + 2], mid + 1, hi)

\* the limbs without the carry out when it is zero
WithCarry(limbs, n) == IF limbs[n + 1] = 0 THEN SubSeq(limbs, 1, n) ELSE limbs

\* x * c + carry, for 0 <= c, carry < kLimb
BigTimes(x, c, carry) ==
    IF x = <<>> THEN (IF carry = 0 THEN <<>> ELSE <<carry>>)
    ELSE WithCarry(TimesLimbs(x, c, carry, 1, Len(x)), Len(x))

\* x * 10^n
BigTimesPow10(x, n) ==
    IF x = <<>> THEN <<>>
    ELSE BigTimes([k \in 1..(n \div 4) |-> 0] \o x, Pow10(n % 4), 0)

BigLess(x, y) ==
    \/ Len(x) < Len(y)
    \/ /\ Len(x) = Len(y)
       /\ \E k \in 1..Len(x) :
            /\ x[k] < y[k]
            /\ \A j \in (k + 1)..Len(x) : x[j] = y[j]

\* limb k of x, zero beyond its length
Limb(x, k) == IF k <= Len(x) THEN x[k] ELSE 0

\* the limbs lo..hi of x - y - borrow, followed by the borrow out of them
RECURSIVE MinusLimbs(_, _, _, _, _)
MinusLimbs(x, y, borrow, lo, hi) ==
    IF lo = hi
    THEN IF x[lo] - Limb(y, lo) - borrow < 0
         THEN << x[lo] - Limb(y, lo) - borrow + kLimb, 1 >>
         ELSE << x[lo] - Limb(y, lo) - borrow, 0 >>
    ELSE LET mid == (lo + hi) \div 2
             low == MinusLimbs(x, y, borrow, lo, mid)
         IN  SubSeq(low, 1, mid - lo + 1)
             \o MinusLimbs(x, y, low[mid - lo + 2], mid + 1, hi)

\* x - y - borrow for x >= y + borrow, leading zeros kept
BigMinus(x, y, borrow) ==
    IF x = <<>> THEN <<>>
    ELSE SubSeq(MinusLimbs(x, y, borrow, 1, Len(x)), 1, Len(x))

BigStrip(x) ==
    LET used == { k \in 1..Len(x) : x[k] # 0 }
    IN  IF used = {} THEN <<>>
        ELSE SubSeq(x, 1, CHOOSE k \in used : \A j \in used : j <= k)

\* the limbs lo..hi of x + y + carry, followed by the carry out of them
RECURSIVE PlusLimbs(_, _, _, _, _)
PlusLimbs(x, y, carry, lo, hi) ==
    IF lo = hi
    THEN << (Limb(x, lo) + Limb(y, lo) + carry) % kLimb,
            (Limb(x, lo) + Limb(y, lo) + carry) \div kLimb >>
    ELSE LET mid == (lo + hi) \div 2
             low == PlusLimbs(x, y, carry, lo, mid)
         IN  SubSeq(low, 1, mid - lo + 1)
             \o PlusLimbs(x, y, low[mid - lo + 2], mid + 1, hi)

\* x + y + carry
BigPlus(x, y, carry) ==
    IF x = <<>> /\ y = <<>> THEN (IF carry = 0 THEN <<>> ELSE <<carry>>)
    ELSE WithCarry(PlusLimbs(x, y, carry, 1, Max(Len(x), Len(y))), Max(Len(x), Len(y)))

\* x times the limbs lo..hi of y, leading zeros kept
RECURSIVE TimesBigLimbs(_, _, _, _)
TimesBigLimbs(x, y, lo, hi) ==
    IF lo = hi THEN BigTimes(x, y[lo], 0)
    ELSE LET mid == (lo + hi) \div 2
         IN  BigPlus(TimesBigLimbs(x, y, lo, mid),
                     [k \in 1..(mid - lo + 1) |-> 0] \o TimesBigLimbs(x, y, mid + 1, hi),
                     0)

\* x * y, leading zeros kept
BigTimesBig(x, y) == IF y = <<>> THEN <<>> ELSE TimesBigLimbs(x, y, 1, Len(y))

BigProduct(x, y) == BigStrip(BigTimesBig(x, y))

BigSquare(x) == BigProduct(x, x)

\* c^n for 1 < c < kLimb
RECURSIVE BigPower(_, _)
BigPower(c, n) ==
    IF n = 0 THEN <<1>>
    ELSE IF n % 2 = 0 THEN BigSquare(BigPower(c, n \div 2))
    ELSE BigTimes(BigPower(c, n - 1), c, 0)

\* the steps in which a number is raised: 2^104, 2^13 and 2; 2^104 is less
\* than kLimb^8, so x * 2^104 <= y when y is more than 8 limbs longer than x
LongStep == BigPower(2, 104)

\* x * 2^j, and k + j, for the least j >= 0 that makes it >= y (x > 0)
RECURSIVE BigRaiseTo(_, _, _)
BigRaiseTo(x, y, k) ==
    IF Len(y) > Len(x) + 8 THEN BigRaiseTo(BigProduct(x, LongStep), y, k + 104)
    ELSE IF ~BigLess(y, BigTimes(x, 8192, 0)) THEN BigRaiseTo(BigTimes(x, 8192, 0), y, k + 13)
    ELSE IF BigLess(x, y) THEN BigRaiseTo(BigTimes(x, 2, 0), y, k + 1)
    ELSE [big |-> x, k |-> k]

\* y * 2^j, and k + j, for the largest j >= 0 that keeps it <= x (0 < y <= x)
RECURSIVE BigRaiseBelow(_, _, _)
BigRaiseBelow(y, x, k) ==
    IF Len(x) > Len(y) + 8 THEN BigRaiseBelow(BigProduct(y, LongStep), x, k + 104)
    ELSE IF ~BigLess(x, BigTimes(y, 8192, 0)) THEN BigRaiseBelow(BigTimes(y, 8192, 0), x, k + 13)
    ELSE IF ~BigLess(x, BigTimes(y, 2, 0)) THEN BigRaiseBelow(BigTimes(y, 2, 0), x, k + 1)
    ELSE [big |-> y, k |-> k]

\* the significand of a double
kSignificandBits == 53

\* the binary digits of x / y that follow the leading one, for y <= x < 2y:
\* the quotient q after `bits` further digits and the remainder r (the rest
\* of the quotient is r / y); q starts as the leading one, <<1>>
\* one further digit
QuotientBit(r, y, q, d) ==
    IF BigLess(d, y) THEN [r |-> d, q |-> BigTimes(q, 2, 0)]
    ELSE [r |-> BigStrip(BigMinus(d, y, 0)), q |-> BigTimes(q, 2, 1)]

\* the digits are worked by halves, so that they need no deep recursion
RECURSIVE BigQuotientBits(_, _, _, _)
QuotientBitsFrom(first, y, bits) == BigQuotientBits(first.r, y, bits, first.q)

BigQuotientBits(r, y, bits, q) ==
    IF bits = 0 \/ q = <<>> THEN [r |-> r, q |-> q]
    ELSE IF bits = 1 THEN QuotientBit(r, y, q, BigTimes(r, 2, 0))
    ELSE QuotientBitsFrom(BigQuotientBits(r, y, bits \div 2, q), y, bits - (bits \div 2))

\* whether the quotient q with remainder r of a division by y rounds up to
\* q + 1: to nearest, ties to even
RoundsUp(q, r, y) ==
    \E twice \in {BigTimes(r, 2, 0)} :
        BigLess(y, twice) \/ (twice = y /\ q[1] % 2 = 1)

\* Where the double nearest to x / y lies, x and y as limb sequences:
\* "exact" on it, "above" or "below" it. The quotient is cut after
\* kSignificandBits binary digits and rounded to nearest, ties to even.
BigNearest(x0, y0) ==
    LET x == IF BigLess(x0, y0) THEN BigRaiseTo(x0, y0, 0).big ELSE x0
        y == IF BigLess(x0, y0) THEN y0 ELSE BigRaiseBelow(y0, x0, 0).big
        d == BigQuotientBits(BigStrip(BigMinus(x, y, 0)), y, kSignificandBits - 1, <<1>>)
    IN  IF d.r = <<>> THEN "exact"
        ELSE IF RoundsUp(d.q, d.r, y) THEN "above"
        ELSE "below"

\* the same division on integers, for x and y below kSmall
kSmall == 1073741824

RECURSIVE RaiseTo(_, _)
RaiseTo(x, y) == IF x < y THEN RaiseTo(2 * x, y) ELSE x

RECURSIVE RaiseBelow(_, _)
RaiseBelow(y, x) == IF 2 * y <= x THEN RaiseBelow(2 * y, x) ELSE y

RECURSIVE QuotientBits(_, _, _, _)
QuotientBits(r, y, bits, last) ==
    IF bits = 0 THEN [r |-> r, last |-> last]
    ELSE IF 2 * r < y THEN QuotientBits(2 * r, y, bits - 1, 0)
    ELSE QuotientBits(2 * r - y, y, bits - 1, 1)

Nearest(x, y) ==
    LET q == QuotientBits(x - y, y, kSignificandBits - 1, 1)
    IN  IF q.r = 0 THEN "exact"
        ELSE IF 2 * q.r > y \/ (2 * q.r = y /\ q.last = 1) THEN "above"
        ELSE "below"

\* Where the double nearest to m * 10^(-e), m > 0, lies, for a decimal in the
\* range of the normal doubles.
NearestDouble(m, e) ==
    IF e >= 0 /\ e <= 9 /\ m < kSmall
    THEN IF m < Pow10(e) THEN Nearest(RaiseTo(m, Pow10(e)), Pow10(e))
         ELSE Nearest(m, RaiseBelow(Pow10(e), m))
    ELSE BigNearest(BigTimesPow10(BigFromInt(m), IF e < 0 THEN 0 - e ELSE 0),
                    BigTimesPow10(<<1>>, IF e > 0 THEN e ELSE 0))

\* --- the doubles the arithmetic works on
\* A finite double other than 0 is a whole number of at most
\* kSignificandBits binary digits times a power of two:
\* [m |-> 1 or -1, e2 |-> k, big |-> x] is the double m * x * 2^k, x a limb
\* sequence.  Zeros, infinities and NaNs are the records they are everywhere.
kMaxBinaryExponent == 1023

kMinBinaryExponent == -1022

IsExact(v) == "big" \in DOMAIN v

Binary(negative, x, e2) == [m |-> IF negative THEN -1 ELSE 1, e2 |-> e2, big |-> x]

\* 2^kSignificandBits
SignificandLimit == BigPower(2, kSignificandBits)

\* x / y as x' / y' * 2^k with y' <= x' < 2y'
RaisedNumerator(s, y) == [x |-> s.big, y |-> y, k |-> 0 - s.k]

RaisedDenominator(x, s) == [x |-> x, y |-> s.big, k |-> s.k]

BinaryFraction(x, y) ==
    IF BigLess(x, y) THEN RaisedNumerator(BigRaiseTo(x, y, 0), y)
    ELSE RaisedDenominator(x, BigRaiseBelow(y, x, 0))

\* the quotient d.q, remainder d.r, of the division by y cut after the binary
\* digit of weight 2^e2, rounded; an infinity when the rounding carries out
\* of the largest double
RoundedUp(negative, q, e2) ==
    IF e2 = kMaxBinaryExponent - (kSignificandBits - 1) /\ q = SignificandLimit
    THEN SignedInfinity(negative)
    ELSE Binary(negative, q, e2)

RoundQuotient(negative, d, y, e2) ==
    IF ~RoundsUp(d.q, d.r, y) THEN Binary(negative, d.q, e2)
    ELSE RoundedUp(negative, BigPlus(d.q, <<1>>, 0), e2)

\* f.x / f.y * 2^k, the fraction from 1 up to 2, rounded to the binary digits
\* a double has at that size: `bits` after the leading one
RoundFraction(negative, f, k, bits) ==
    IF k > kMaxBinaryExponent THEN SignedInfinity(negative)
    ELSE IF bits < -1 THEN SignedZero(negative)
    ELSE IF bits = -1
    THEN IF f.x = f.y THEN SignedZero(negative)
         ELSE Binary(negative, <<1>>, k + 1)
    ELSE RoundQuotient(negative,
                       BigQuotientBits(BigStrip(BigMinus(f.x, f.y, 0)), f.y, bits, <<1>>),
                       f.y, k - bits)

\* kSignificandBits digits from 2^kMinBinaryExponent on, fewer below it
\* (subnormal), none below half the smallest double
SignificandBitsAt(k) ==
    IF k < kMinBinaryExponent THEN kSignificandBits - 1 - (kMinBinaryExponent - k)
    ELSE kSignificandBits - 1

RoundBinary(negative, f, k) ==
    RoundFraction(negative, f, f.k + k, SignificandBitsAt(f.k + k))

\* the double nearest to x / y * 2^k, ties to even (x, y > 0): x * 2^k
\* itself when it has the digits of a double
RoundRatio(negative, x, y, k) ==
    IF /\ y = <<1>> /\ BigLess(x, SignificandLimit)
       /\ k >= kMinBinaryExponent - (kSignificandBits - 1)
       /\ k <= kMaxBinaryExponent - (kSignificandBits - 1)
    THEN Binary(negative, x, k)
    ELSE RoundBinary(negative, BinaryFraction(x, y), k)

\* the double nearest to the magnitude m * 10^(-e), m > 0
ExactDecimal(negative, m, e) ==
    RoundRatio(negative,
               BigTimesPow10(BigFromInt(m), IF e < 0 THEN 0 - e ELSE 0),
               BigTimesPow10(<<1>>, IF e > 0 THEN e ELSE 0), 0)

\* the double a coordinate names, as the arithmetic works on it
Exact(v) ==
    IF IsExact(v) \/ IsNaN(v) \/ IsInfinite(v) \/ IsZero(v) THEN v
    ELSE ExactDecimal(v.m < 0, IF v.m < 0 THEN 0 - v.m ELSE v.m, v.e)

\* x - y for two magnitudes in units of 2^e2 with the signs given, rounded
DifferenceMagnitude(same_sign, x, y) ==
    IF ~same_sign THEN BigPlus(x, y, 0)
    ELSE IF BigLess(y, x) THEN BigStrip(BigMinus(x, y, 0))
    ELSE BigStrip(BigMinus(y, x, 0))

SubAligned(a_negative, b_negative, x, y, e2) ==
    IF a_negative = b_negative /\ x = y THEN Special(0)
    ELSE RoundRatio(a_negative # (a_negative = b_negative /\ BigLess(x, y)),
                    DifferenceMagnitude(a_negative = b_negative, x, y), <<1>>, e2)

\* the magnitude of the exact double v in units of 2^e2, e2 <= v.e2
Aligned(v, e2) == BigProduct(v.big, BigPower(2, v.e2 - e2))

SubMagnitudes(a_negative, b_negative, mag, e2) ==
    SubAligned(a_negative, b_negative, mag[1], mag[2], e2)

SubFinite(a, b, e2) ==
    SubMagnitudes(a.m < 0, b.m < 0, [k \in 1..2 |-> Aligned(<<a, b>>[k], e2)], e2)

SubExact(a, b) ==
    IF IsNaN(a) THEN a
    ELSE IF IsNaN(b) THEN b
    ELSE IF IsInfinite(a)
    THEN IF b.m = a.m THEN DefaultNaN ELSE a
    ELSE IF IsInfinite(b) THEN SignedInfinity(~IsNegative(b))
    ELSE IF IsZero(a) /\ IsZero(b)
    THEN IF a.m = NegZero /\ b.m = 0 THEN Special(NegZero) ELSE Special(0)
    ELSE IF IsZero(b) THEN a
    ELSE IF IsZero(a) THEN [b EXCEPT !.m = 0 - b.m]
    ELSE SubFinite(a, b, IF a.e2 <= b.e2 THEN a.e2 ELSE b.e2)

\* a - b on doubles (subsd): a NaN operand is the result, the first one when
\* both are; a finite difference is rounded to the nearest double
SubPair(pair) == SubExact(pair[1], pair[2])

DoubleSub(a, b) == SubPair([k \in 1..2 |-> Exact(<<a, b>>[k])])

MulExact(a, b, dst) ==
    IF IsNaN(a) /\ IsNaN(b) THEN (IF dst = 1 THEN a ELSE b)
    ELSE IF IsNaN(a) THEN a
    ELSE IF IsNaN(b) THEN b
    ELSE IF IsInfinite(a) \/ IsInfinite(b)
    THEN IF IsZero(a) \/ IsZero(b) THEN DefaultNaN
         ELSE SignedInfinity(IsNegative(a) # IsNegative(b))
    ELSE IF IsZero(a) \/ IsZero(b)
    THEN SignedZero(IsNegative(a) # IsNegative(b))
    ELSE RoundRatio((a.m < 0) # (b.m < 0), BigProduct(a.big, b.big), <<1>>,
                    a.e2 + b.e2)

\* a * b on doubles (mulsd): a finite product is rounded to the nearest
\* double.  When both operands are NaN the result is the one in the
\* destination register of the instruction, which the compiler picks: the
\* operand numbered dst.
MulPair(pair, dst) == MulExact(pair[1], pair[2], dst)

DoubleMul(a, b, dst) == MulPair([k \in 1..2 |-> Exact(<<a, b>>[k])], dst)

\* the double with the sign bit flipped
Negated(v) ==
    IF IsExact(v) THEN [v EXCEPT !.m = 0 - v.m]
    ELSE IF v.m = 0 THEN Special(NegZero)
    ELSE IF v.m = NegZero THEN Special(0)
    ELSE IF v.m = NaN THEN Special(NegNaN)
    ELSE IF v.m = NegNaN THEN Special(NaN)
    ELSE Special(0 - v.m)

AddExact(a, b, dst) ==
    IF IsNaN(a) /\ IsNaN(b) THEN (IF dst = 1 THEN a ELSE b)
    ELSE IF IsNaN(a) THEN a
    ELSE IF IsNaN(b) THEN b
    ELSE SubExact(a, Negated(b))

\* a + b on doubles (addsd): a NaN operand is the result, and when both
\* operands are NaN the one in the destination register of the instruction,
\* which the compiler picks: the operand numbered dst (the first in a build
\* with -O2, the second in one with -O0).  The sum of two doubles that are
\* no NaN is the difference of the first and the second with its sign
\* flipped, rounded alike.
AddPair(pair, dst) == AddExact(pair[1], pair[2], dst)

DoubleAdd(a, b, dst) == AddPair([k \in 1..2 |-> Exact(<<a, b>>[k])], dst)

\* the sign of a difference that is no NaN: a < b
IsBelowZero(difference) ==
    ~IsNaN(difference) /\ ~IsZero(difference) /\ IsNegative(difference)

LessExact(a, b) == ~IsNaN(a) /\ ~IsNaN(b) /\ IsBelowZero(SubExact(a, b))

\* a < b on doubles (comisd): false when either is a NaN
LessPair(pair) == LessExact(pair[1], pair[2])

LessThan(a, b) == LessPair([k \in 1..2 |-> Exact(<<a, b>>[k])])

\* ------------------------------------------------------ geometry.hpp
PointHash(p) ==
    HashCombine(HashCombine(HashDouble(p[1]), HashDouble(p[2])), HashDouble(p[3]))

\* std::array<double, 3>::operator< as the C++20 build compiles it (the
\* sources need <span>): the synthesized three-way comparison walks x, y, z
\* and stops at the first coordinate that does not compare equal; the result
\* is "less" only when that coordinate is less, so a NaN there (unordered)
\* gives false whatever follows. -0.0 and 0.0 compare equal.
PointLess(p, q) ==
    IF ~DoubleEqual(p[1], q[1]) THEN DoubleLess(p[1], q[1])
    ELSE IF ~DoubleEqual(p[2], q[2]) THEN DoubleLess(p[2], q[2])
    ELSE DoubleLess(p[3], q[3])

PointEquality(p, q) ==
    DoubleEqual(p[1], q[1]) /\ DoubleEqual(p[2], q[2]) /\ DoubleEqual(p[3], q[3])

\* (variant: the endpoints are kept in argument order)
make_edge_Unordered(p, q) == <<p, q>>

make_edge(p, q) == IF PointLess(p, q) THEN <<p, q>> ELSE <<q, p>>

EdgeHash(e) == HashCombine(PointHash(e[1]), PointHash(e[2]))

EdgeEquality(e1, e2) == PointEquality(e1[1], e2[1]) /\ PointEquality(e1[2], e2[2])

Triangle(pa, pb, pc) == [a |-> pa, b |-> pb, c |-> pc]

\* the array `edges` built from a triangle in every traversal
TriangleEdges(t) ==
    << make_edge(t.a, t.b), make_edge(t.b, t.c), make_edge(t.c, t.a) >>

\* ------------------------------------------------------ reorient_triangles.cpp
\* (variant: the vertices are rotated)
flip_triangle_Rotated(t) == [a |-> t.b, b |-> t.c, c |-> t.a]

flip_triangle(t) == [a |-> t.a, b |-> t.c, c |-> t.b]

has_directed_edge(t, from, to) ==
    \/ (PointEquality(t.a, from) /\ PointEquality(t.b, to))
    \/ (PointEquality(t.b, from) /\ PointEquality(t.c, to))
    \/ (PointEquality(t.c, from) /\ PointEquality(t.a, to))

are_orientations_consistent(t1, t2, edge) ==
    has_directed_edge(t1, edge[1], edge[2]) # has_directed_edge(t2, edge[1], edge[2])

\* ------------------------------------------------------ triangle_mesh.cpp
HasDuplicateVertices(t) ==
    PointEquality(t.a, t.b) \/ PointEquality(t.b, t.c) \/ PointEquality(t.c, t.a)

\* --- the doubles of the mesh
\* A coordinate of a Point is an integer.  A small one is the double of that
\* value, NaN and NegZero are those doubles, and the values below are doubles
\* too large to be written as an integer here; read as integers they are in
\* the order of the doubles.
Two53 == 2000000053
ThreeTwo53 == 2000000054
TwoTo600 == 2000000600
TwoTo601 == 2000000601

IsLarge(x) == x \in {Two53, ThreeTwo53, TwoTo600, TwoTo601}

\* the double a coordinate is: a NaN, -0.0, one of 2^53, 3 * 2^53, 2^600 and
\* 2^601, or a small whole number
AsDouble(x) ==
    IF x = NaN \/ x = NegZero THEN Special(x)
    ELSE IF x = Two53 THEN Binary(FALSE, <<1>>, 53)
    ELSE IF x = ThreeTwo53 THEN Binary(FALSE, <<3>>, 53)
    ELSE IF x = TwoTo600 THEN Binary(FALSE, <<1>>, 600)
    ELSE IF x = TwoTo601 THEN Binary(FALSE, <<1>>, 601)
    ELSE Dec(x, 0)

\* `kTolerance * kTolerance`, kTolerance = 1e-16
kTolerance == Dec(1, 16)

ToleranceSquared == DoubleMul(kTolerance, kTolerance, 1)

\* v1 and v2 of the constructor: b - a and c - a
EdgeVector(p, q) == [k \in 1..3 |-> DoubleSub(AsDouble(p[k]), AsDouble(q[k]))]

\* cross_x, cross_y, cross_z
CrossOf(v1, v2) ==
    [k \in 1..3 |->
        DoubleSub(DoubleMul(v1[(k % 3) + 1], v2[((k + 1) % 3) + 1], 1),
                  DoubleMul(v1[((k + 1) % 3) + 1], v2[(k % 3) + 1], 1))]

SquaresOf(cross) == [k \in 1..3 |-> DoubleMul(cross[k], cross[k], 1)]

\* the operand a build keeps of two NaNs, for the first and for the second
\* addition of area_squared
SumOrders == {1, 2} \X {1, 2}

SumOf(squares, order) ==
    DoubleAdd(DoubleAdd(squares[1], squares[2], order[1]), squares[3], order[2])

\* area_squared of the constructor: |(b - a) x (c - a)|^2, every difference,
\* product and sum rounded to a double
AreaSquared(t, order) ==
    SumOf(SquaresOf(CrossOf(EdgeVector(t.b, t.a), EdgeVector(t.c, t.a))), order)

\* (variant: the area test never fires)
IsCollinear_NeverBelow(t) ==
    \E order \in SumOrders : LessThan(AreaSquared(t, order), Special(NegInfinity))

\* `area_squared < kTolerance * kTolerance`.  The builds differ in the sign
\* of an area_squared that is a NaN only, and no NaN is below anything.
IsCollinear(t) == \E order \in SumOrders : LessThan(AreaSquared(t, order), ToleranceSquared)

\* "none", or the reason the constructor gives for triangle t
DegenerateReason(t) ==
    IF HasDuplicateVertices(t) THEN "duplicate vertices"
    ELSE IF IsCollinear(t) THEN "co-linear" ELSE "none"

\* edge_connectivity_ holds the entries [key, value] of the unordered_map.
\* Lookups compare keys with EdgeEquality (keys that are equal hash alike: a
\* zero of either sign hashes to 0).  A key with a NaN coordinate equals no
\* edge, itself included, so no lookup finds its entry: these entries are the
\* sequence `unfound`, in the order they were inserted.  The other entries
\* are the function `found`, from the coordinates of a key with 0.0 for -0.0,
\* which are the same for exactly the keys EdgeEquality finds equal.
KeyHasNaN(e) == \E n \in 1..2 : \E d \in 1..3 : e[n][d] = NaN

KeyOf(e) ==
    << <<DoubleValue(e[1][1]), DoubleValue(e[1][2]), DoubleValue(e[1][3])>>,
       <<DoubleValue(e[2][1]), DoubleValue(e[2][2]), DoubleValue(e[2][3])>> >>

\* `find(edge) != end()` (no key of `found` has a NaN)
Contains(map, e) == KeyOf(e) \in DOMAIN map.found

\* it->second of the entry an edge is found at
Second(map, e) == map.found[KeyOf(e)].value

\* the entry of an edge that is found, with its value replaced
WithSecond(map, e, value) ==
    [map EXCEPT !.found = [@ EXCEPT ![KeyOf(e)] = [@ EXCEPT !.value = value]]]

\* try_emplace(edge, {i, kBoundaryTriangleIndex}) where no key equals edge
NewEntry(e, i) == [key |-> e, value |-> <<i, kBoundaryTriangleIndex>>]

Emplace(map, e, i) ==
    IF KeyHasNaN(e) THEN [map EXCEPT !.unfound = Append(@, NewEntry(e, i))]
    ELSE [map EXCEPT !.found = [x \in (DOMAIN @) \cup {KeyOf(e)} |->
                                   IF x = KeyOf(e) THEN NewEntry(e, i) ELSE @[x]]]

\* the entries of the map, as a set
Entries(map) ==
    { map.found[x] : x \in DOMAIN map.found }
        \cup { map.unfound[k] : k \in 1..Len(map.unfound) }

\* (variant: the second triangle of an edge takes slot 0 and pushes the first
\* one to slot 1)
RegisterEdge_SwappedSlots(st, e, i) ==
    IF st.thrown THEN st
    ELSE IF ~Contains(st.map, e)
         THEN [map |-> Emplace(st.map, e, i), thrown |-> FALSE]
         ELSE IF Second(st.map, e)[2] # kBoundaryTriangleIndex
              THEN [map |-> st.map, thrown |-> TRUE]
              ELSE [map |-> WithSecond(st.map, e, <<i, Second(st.map, e)[1]>>),
                    thrown |-> FALSE]

\* (variant: no manifold check, a third triangle overwrites slot 1)
RegisterEdge_NoManifoldCheck(st, e, i) ==
    IF ~Contains(st.map, e)
    THEN [map |-> Emplace(st.map, e, i), thrown |-> FALSE]
    ELSE [map |-> WithSecond(st.map, e, <<Second(st.map, e)[1], i>>),
          thrown |-> FALSE]

\* One pass of the inner loop of BuildEdgeToTriangleConnectivity: register
\* triangle index i on edge e.  The result is the new map, or the map
\* unchanged with thrown = TRUE.
RegisterEdge(st, e, i) ==
    IF st.thrown THEN st
    ELSE IF ~Contains(st.map, e)
         THEN [map |-> Emplace(st.map, e, i), thrown |-> FALSE]
         ELSE IF Second(st.map, e)[2] # kBoundaryTriangleIndex
              THEN [map |-> st.map, thrown |-> TRUE]
              ELSE [map |-> WithSecond(st.map, e, <<Second(st.map, e)[1], i>>),
                    thrown |-> FALSE]

\* the body of the outer loop for triangle index i
RegisterTriangle(map, t, i) ==
    LET es == TriangleEdges(t)
        s0 == [map |-> map, thrown |-> FALSE]
        s1 == RegisterEdge(s0, es[1], i)
        s2 == RegisterEdge(s1, es[2], i)
    IN  RegisterEdge(s2, es[3], i)

\* ------------------------------------------------------------------ inputs
O  == <<0, 0, 0>>
X  == <<1, 0, 0>>
Y  == <<0, 1, 0>>
Z  == <<0, 0, 1>>
XY == <<1, 1, 0>>
X2 == <<2, 0, 0>>
NZ == <<0, 0, -1>>
FO == <<0, 10, 0>>
FX == <<1, 10, 0>>
FY == <<0, 11, 0>>

\* triangles that short inputs are drawn from: faces around the edge O-X in
\* both windings, a rotated copy, a collinear and a duplicate-vertex triangle
TriangleUniverse ==
    { Triangle(O, X, Y), Triangle(O, Y, X), Triangle(X, Y, O),
      Triangle(O, X, XY), Triangle(O, X, Z), Triangle(FO, FX, FY),
      Triangle(O, X, X2), Triangle(O, O, Y) }

ShortInputs == UNION { [1..k -> TriangleUniverse] : k \in 0..MaxTriangles }

Tetrahedron ==
    << Triangle(O, X, Y), Triangle(O, X, Z), Triangle(X, Y, Z), Triangle(Y, O, Z) >>

\* triangular bipyramid: equator O, X, Y and apexes Z, NZ (closed, 6 faces)
Bipyramid ==
    << Triangle(O, X, Z), Triangle(X, Y, Z), Triangle(Y, O, Z),
       Triangle(O, X, NZ), Triangle(X, Y, NZ), Triangle(Y, O, NZ) >>

\* two closed two-triangle components far apart
TwoPillows ==
    << Triangle(O, X, Y), Triangle(FO, FX, FY), Triangle(X, Y, O), Triangle(FX, FY, FO) >>

\* one closed component and one lone (open) triangle
PillowAndTriangle ==
    << Triangle(O, X, Y), Triangle(X, Y, O), Triangle(FO, FX, FY) >>

\* three triangles around the edge O-X, then one more
Fan ==
    << Triangle(O, X, Y), Triangle(O, X, Z), Triangle(O, X, XY), Triangle(X, Y, XY) >>

\* a non-manifold edge and a degenerate triangle in the same list
FanWithDegenerate ==
    << Triangle(O, X, Y), Triangle(O, X, Z), Triangle(O, X, XY), Triangle(O, X, X2) >>

\* two degenerate triangles, the collinear one first
TwoDegenerate ==
    << Triangle(O, X, Y), Triangle(O, X, X2), Triangle(X, X, Y) >>

\* the strip of the tests: T0, T1, T0' sharing edges in the same direction
Strip ==
    << Triangle(O, X, Y), Triangle(X, Y, XY), Triangle(X, X2, XY) >>

Catalogue ==
    { Tetrahedron, Bipyramid, TwoPillows, PillowAndTriangle, Fan,
      FanWithDegenerate, TwoDegenerate, Strip }

\* the closed cube [lo, hi]^3 of the void-detection tests: 12 triangles, two
\* per face, in the order the tests write them
CubeAt(lo, hi) ==
    << Triangle(<<lo, lo, lo>>, <<hi, lo, lo>>, <<hi, hi, lo>>),
       Triangle(<<lo, lo, lo>>, <<hi, hi, lo>>, <<lo, hi, lo>>),
       Triangle(<<lo, lo, hi>>, <<lo, hi, hi>>, <<hi, hi, hi>>),
       Triangle(<<lo, lo, hi>>, <<hi, hi, hi>>, <<hi, lo, hi>>),
       Triangle(<<lo, lo, lo>>, <<lo, lo, hi>>, <<hi, lo, hi>>),
       Triangle(<<lo, lo, lo>>, <<hi, lo, hi>>, <<hi, lo, lo>>),
       Triangle(<<lo, hi, lo>>, <<hi, hi, lo>>, <<hi, hi, hi>>),
       Triangle(<<lo, hi, lo>>, <<hi, hi, hi>>, <<lo, hi, hi>>),
       Triangle(<<lo, lo, lo>>, <<lo, hi, lo>>, <<lo, hi, hi>>),
       Triangle(<<lo, lo, lo>>, <<lo, hi, hi>>, <<lo, lo, hi>>),
       Triangle(<<hi, lo, lo>>, <<hi, lo, hi>>, <<hi, hi, hi>>),
       Triangle(<<hi, lo, lo>>, <<hi, hi, hi>>, <<hi, hi, lo>>) >>

Cube == CubeAt(0, 1)

TwoDisjointCubes == CubeAt(0, 1) \o CubeAt(2, 3)

\* an inner cube strictly inside an outer one
OuterInnerCubes == CubeAt(0, 3) \o CubeAt(1, 2)

\* the inner cube first: the void is the first component found
InnerOuterCubes == CubeAt(1, 2) \o CubeAt(0, 3)

\* an inner cube whose box touches the box of the outer one on one face
OuterTouchingCubes == CubeAt(0, 2) \o CubeAt(1, 2)

\* a lone triangle, then the unit cube
TriangleThenCube ==
    << Triangle(FO, FX, FY) >> \o CubeAt(0, 1)

\* a closed pillow inside the box of an open strip, and a lone triangle
PillowInOpenBox ==
    << Triangle(<<-1, -1, -1>>, <<2, -1, 1>>, <<-1, 2, 1>>),
       Triangle(O, X, Y), Triangle(X, Y, O), Triangle(FO, FX, FY) >>

\* a vertex with a NaN coordinate, as the parser returns it for "nan 5 5"
NaNPoint == <<NaN, 5, 5>>

\* a triangle on the line through (1, 3, 0) whose vertex differences are
\* rounded: b - a is (2^53 + 1, 3 * 2^53 + 3, 0) before rounding
RoundedCollinear ==
    << Triangle(O, X, Y),
       Triangle(<<-1, -3, 0>>, <<Two53, ThreeTwo53, 0>>, <<1, 3, 0>>) >>

\* a triangle on the line x = y whose products overflow
OverflowingCollinear ==
    << Triangle(O, <<TwoTo600, TwoTo600, 0>>, <<TwoTo601, TwoTo601, 0>>) >>

\* a triangle whose squared cross products are NaNs of both signs
NaNOverflowing ==
    << Triangle(O, <<TwoTo600, TwoTo600, NaN>>, <<TwoTo601, TwoTo601, 0>>) >>

\* a triangle of area 1/2 for which b - a is rounded to a multiple of c - a,
\* then a triangle with a repeated vertex
ThinThenDuplicate ==
    << Triangle(<<-1, 0, 0>>, <<Two53, Two53, 0>>, <<0, 1, 0>>), Triangle(O, O, Y) >>

\* two triangles on the edge O-X, one of them with the NaN vertex
NaNBox == << Triangle(O, X, Y), Triangle(NaNPoint, X, O) >>

\* two and three triangles that repeat an edge with the NaN vertex
NaNPair == << Triangle(NaNPoint, X, O), Triangle(NaNPoint, X, Y) >>

NaNFan ==
    << Triangle(NaNPoint, X, O), Triangle(NaNPoint, X, Y), Triangle(NaNPoint, X, Z) >>

\* a triangle that repeats the NaN vertex
NaNRepeated == << Triangle(NaNPoint, NaNPoint, X) >>

\* lists given in one winding only
FixedInputs ==
    { Cube, TwoDisjointCubes, OuterInnerCubes, InnerOuterCubes,
      OuterTouchingCubes, TriangleThenCube, PillowInOpenBox,
      RoundedCollinear, OverflowingCollinear, NaNOverflowing, ThinThenDuplicate,
      NaNBox, NaNPair, NaNFan, NaNRepeated }

\* the list with the triangles at the positions of mask reversed
Oriented(shape, mask) ==
    [k \in 1..Len(shape) |-> IF k \in mask THEN flip_triangle(shape[k]) ELSE shape[k]]

CatalogueInputs ==
    UNION { { Oriented(shape, mask) : mask \in SUBSET (1..Len(shape)) } : shape \in Catalogue }

Inputs == ShortInputs \cup CatalogueInputs \cup FixedInputs

\* every triangle of every input list
InputTriangles == UNION { { tris[k] : k \in 1..Len(tris) } : tris \in Inputs }

\* DegenerateReason of each of them, computed once
DegenerateReasons == [t \in InputTriangles |-> DegenerateReason(t)]

DegenerateReasonOf(t) ==
    IF t \in InputTriangles THEN DegenerateReasons[t] ELSE DegenerateReason(t)


\* ------------------------------------------------------------------- state
VARIABLES
    input,               \* triangle list the parser returns for the path
    file,                \* `std::ifstream file(path)`: "open" or "failed"
    ctor,                \* constructor called: "none", "default", "path"
    mesh_state,          \* "none", "checking", "building", "ready", "failed"
    error,               \* "none", "open", "empty", "degenerate", "nonmanifold"
    error_index,         \* index named by the degenerate message, else -1
    error_reason,        \* reason named by the degenerate message, else "none"
    i,                   \* loop index of the constructor loop in progress
    triangles_,          \* TriangleMesh::triangles_
    edge_connectivity_,  \* TriangleMesh::edge_connectivity_
    flips_returned,      \* history: some call on this mesh returned a flipped triangle
    r_pc,                \* reorient: "idle", "running", "returned", "crashed"
    seed,                \* reorient: argument
    visited_triangles,   \* reorient: [0..N-1 -> BOOLEAN]
    queue,               \* reorient: FIFO of size_t indices
    flipped_triangles,   \* reorient: result list
    flipped_from,        \* history: index each result entry was copied from
    mem_visited,         \* the bit at visited_triangles[size_t(-1)]
    oob_access,          \* history: an index outside [0, N) was used
    heap_written,        \* a bit outside the visited array was written
    dequeued,            \* reorient: the indices popped from the queue so far, in order
    components,          \* result of the last find_connected_components
    components_found,    \* find_connected_components has returned
    closed_arg,          \* component last passed to is_connected_component_closed
    closed_result,       \* its result
    void_input,          \* list last passed to identify_voids
    voids,               \* its result
    voids_found,         \* identify_voids has returned
    stl_out,             \* triangles export_voids_to_stl handed to the writer
    exported,            \* export_voids_to_stl has returned
    last_box,            \* the AxisAlignedBoundingBox last produced, else <<>>
    box_status,          \* "none", "ok", "thrown"
    box_op,              \* what produced it: "none", "scalars", "points", "component"
    box_component,       \* component last passed to compute_component_aabb, else <<>>
    box_pad,             \* the pad passed with it, in units of kEpsilon
    g_pc,                \* geometry calls: "idle", "drawn", "edges", "looked_up",
                         \*                 "flipped", "flipped_twice"
    g_p, g_q, g_r,       \* three points (the vertices a, b, c of a triangle)
    edge_pq, edge_qp,    \* make_edge(g_p, g_q) and make_edge(g_q, g_p)
    hash_pq, hash_qp,    \* EdgeHash of the two
    map_found,           \* find(edge_qp) in an unordered_map that holds edge_pq
    flipped_once,        \* the triangle after one flip_triangle
    flipped_twice,       \* and after a second one
    s_pc,                \* parse_ascii_stl: "idle", "reading", "returned"
    s_text,              \* the characters of the input stream
    s_chunk,             \* sizeof(chunk)
    s_pos,               \* characters read from the stream so far
    buffer,              \* parse_ascii_stl: buffer
    triangle_vertices,   \* the vertices collected (triangle_vertex_count of them)
    coord_buffer,        \* the coordinates collected (coord_index of them)
    remaining_coords,    \* parse_ascii_stl: remaining_coords
    parsed,              \* parse_ascii_stl: triangles
    w_triangles,         \* write_ascii_stl: the triangles handed to it
    w_name,              \* write_ascii_stl: solid_name
    p_pc,                \* Polyline: "idle", "start", "built", "threw", "crashed",
                         \* "endless", "undefined"; "call", "returned" for the
                         \* static function
    representation,      \* Polyline constructor: representation
    data,                \* Polyline constructor: data; the segments of a direct call
    p_num_vertices,      \* GetCompressedVertexOrdering called directly: num_vertices
    p_returned,          \* and the vector it returned
    compressed_segments_,\* Polyline::compressed_segments_
    type_,               \* Polyline::type_
    p_walked,            \* compressed_ordering as far as the call is known to have filled it
    p_is_polygon,        \* the last value returned by IsPolygon()
    p_get_type           \* the last value returned by GetType()

mesh_vars == << input, file, ctor, mesh_state, error, error_index, error_reason, i,
                triangles_, edge_connectivity_ >>
reorient_vars == << r_pc, seed, visited_triangles, queue, flipped_triangles,
                    flipped_from, mem_visited, oob_access,
                    heap_written, dequeued >>
aux_vars == << stl_out, exported, last_box, box_status, box_op, box_component,
              box_pad >>
void_vars == << components, components_found, closed_arg, closed_result,
                void_input, voids, voids_found, aux_vars >>
geom_vars == << g_pc, g_p, g_q, g_r, edge_pq, edge_qp, hash_pq, hash_qp, map_found,
                flipped_once, flipped_twice >>
\* the state of the stand-alone calls of the geometry functions
stl_vars == << s_pc, s_text, s_chunk, s_pos, buffer, triangle_vertices, coord_buffer,
               remaining_coords, parsed, w_triangles, w_name >>
poly_vars == << p_pc, representation, data, p_num_vertices, p_returned,
                compressed_segments_, type_, p_walked, p_is_polygon,
                p_get_type >>
pure_vars == << geom_vars, stl_vars, poly_vars >>
vars == << mesh_vars, reorient_vars, void_vars, flips_returned, pure_vars >>

NumTriangles == Len(triangles_)
InRange(idx) == idx >= 0 /\ idx < NumTriangles
EmptyMap == [found |-> [x \in {} |-> 0], unfound |-> <<>>]
NoVisited == [k \in {} |-> FALSE]

\* A caller keeps the result of its latest call only: the locals and the
\* result of reorient_inconsistent_triangles are dropped when one of the
\* void-detection functions is called next, and the other way round (the
\* component list lives on while the void-detection functions use it).
ReorientIdle ==
    /\ r_pc = "idle" /\ seed = 0 /\ visited_triangles = NoVisited
    /\ queue = <<>> /\ flipped_triangles = <<>> /\ flipped_from = <<>>
    /\ mem_visited = "unread"
    /\ oob_access = FALSE /\ heap_written = FALSE /\ dequeued = <<>>

AuxIdle ==
    /\ stl_out = <<>> /\ exported = FALSE
    /\ last_box = <<>> /\ box_status = "none" /\ box_op = "none"
    /\ box_component = <<>> /\ box_pad = 0

VoidIdle ==
    /\ components = <<>> /\ components_found = FALSE
    /\ closed_arg = <<>> /\ closed_result = FALSE
    /\ void_input = <<>> /\ voids = <<>> /\ voids_found = FALSE
    /\ AuxIdle

DropReorientResult ==
    /\ r_pc' = "idle" /\ seed' = 0 /\ visited_triangles' = NoVisited
    /\ queue' = <<>> /\ flipped_triangles' = <<>> /\ flipped_from' = <<>>
    /\ mem_visited' = "unread"
    /\ oob_access' = FALSE /\ heap_written' = FALSE /\ dequeued' = <<>>

DropAux ==
    /\ stl_out' = <<>> /\ exported' = FALSE
    /\ last_box' = <<>> /\ box_status' = "none" /\ box_op' = "none"
    /\ box_component' = <<>> /\ box_pad' = 0

\* the results of is_connected_component_closed and identify_voids
DropClosedAndVoids ==
    /\ closed_arg' = <<>> /\ closed_result' = FALSE
    /\ void_input' = <<>> /\ voids' = <<>> /\ voids_found' = FALSE

DropVoidResults ==
    /\ components' = <<>> /\ components_found' = FALSE
    /\ DropClosedAndVoids
    /\ DropAux

GeomResultsUnset ==
    /\ edge_pq = <<>> /\ edge_qp = <<>> /\ hash_pq = 0 /\ hash_qp = 0
    /\ map_found = FALSE /\ flipped_once = <<>> /\ flipped_twice = <<>>

GeomIdle ==
    /\ g_pc = "idle" /\ g_p = <<>> /\ g_q = <<>> /\ g_r = <<>>
    /\ GeomResultsUnset

ParserStart ==
    /\ s_pos = 0 /\ buffer = <<>> /\ triangle_vertices = <<>>
    /\ coord_buffer = <<>> /\ remaining_coords = 0 /\ parsed = <<>>

StlIdle ==
    /\ s_pc = "idle" /\ s_text = <<>> /\ s_chunk = 0
    /\ w_triangles = <<>> /\ w_name = <<>>
    /\ ParserStart

PolyResultsUnset ==
    /\ compressed_segments_ = <<>> /\ type_ = "unset" /\ p_walked = <<>>
    /\ p_returned = <<>>
    /\ p_is_polygon = "unset" /\ p_get_type = "unset"

PolyIdle ==
    /\ p_pc = "idle" /\ representation = "none" /\ data = <<>>
    /\ p_num_vertices = -1
    /\ PolyResultsUnset

Init ==
    /\ \/ file = "open" /\ input \in Inputs
       \/ file = "failed" /\ input = <<>>
    /\ GeomIdle
    /\ StlIdle
    /\ PolyIdle
    /\ ctor = "none"
    /\ mesh_state = "none"
    /\ error = "none" /\ error_index = -1 /\ error_reason = "none"
    /\ i = 0
    /\ triangles_ = <<>>
    /\ edge_connectivity_ = EmptyMap
    /\ flips_returned = FALSE
    /\ ReorientIdle
    /\ VoidIdle

\* ------------------------------------------------- TriangleMesh constructors
\* the constructor throws: the object never exists, its members are gone
Fail(kind, index, reason) ==
    /\ mesh_state' = "failed"
    /\ error' = kind /\ error_index' = index /\ error_reason' = reason
    /\ triangles_' = <<>>
    /\ edge_connectivity_' = EmptyMap

\* TriangleMesh() = default
DefaultConstruct ==
    /\ mesh_state = "none"
    /\ ctor' = "default"
    /\ mesh_state' = "ready"
    /\ triangles_' = <<>>
    /\ edge_connectivity_' = EmptyMap
    /\ UNCHANGED << input, file, error, error_index, error_reason, i, reorient_vars, void_vars,
                    flips_returned >>
    /\ UNCHANGED pure_vars

\* (variant: the empty check never fires)
EmptyCheck_Never(tris) == Len(tris) < 0

\* `this->triangles_.empty()`
EmptyCheck(tris) == Len(tris) = 0

\* TriangleMesh(path): the stream is opened (`if (!file)` throws), the input
\* is parsed, then the empty check
ConstructParse ==
    /\ mesh_state = "none"
    /\ ctor' = "path"
    /\ IF file = "failed"
       THEN /\ Fail("open", -1, "none")
            /\ i' = i
       ELSE IF EmptyCheck(input)
       THEN /\ Fail("empty", -1, "none")
            /\ i' = i
       ELSE /\ mesh_state' = "checking"
            /\ triangles_' = input
            /\ i' = 0
            /\ UNCHANGED << error, error_index, error_reason, edge_connectivity_ >>
    /\ UNCHANGED << input, file, reorient_vars, void_vars,
                    flips_returned >>
    /\ UNCHANGED pure_vars

\* the degeneracy loop: its exit test, or its body for triangle i
ConstructCheck ==
    /\ mesh_state = "checking"
    /\ IF i >= NumTriangles
       THEN /\ mesh_state' = "building"
            /\ i' = 0
            /\ UNCHANGED << error, error_index, error_reason, triangles_,
                            edge_connectivity_ >>
       ELSE LET reason == DegenerateReasonOf(triangles_[i + 1])
            IN  IF reason # "none"
                THEN /\ Fail("degenerate", i, reason)
                     /\ i' = i
                ELSE /\ i' = i + 1
                     /\ UNCHANGED << mesh_state, error, error_index, error_reason,
                                     triangles_, edge_connectivity_ >>
    /\ UNCHANGED << input, file, ctor, reorient_vars, void_vars,
                    flips_returned >>
    /\ UNCHANGED pure_vars

\* the outer loop of BuildEdgeToTriangleConnectivity: its exit test, or its
\* body for triangle i
ConstructBuild ==
    /\ mesh_state = "building"
    /\ IF i >= NumTriangles
       THEN /\ mesh_state' = "ready"
            /\ UNCHANGED << i, error, error_index, error_reason, triangles_,
                            edge_connectivity_ >>
       ELSE LET r == RegisterTriangle(edge_connectivity_, triangles_[i + 1], i)
            IN  IF r.thrown
                THEN /\ Fail("nonmanifold", -1, "none")
                     /\ i' = i
                ELSE /\ edge_connectivity_' = r.map
                     /\ i' = i + 1
                     /\ UNCHANGED << mesh_state, error, error_index, error_reason,
                                     triangles_ >>
    /\ UNCHANGED << input, file, ctor, reorient_vars, void_vars,
                    flips_returned >>
    /\ UNCHANGED pure_vars

\* ------------------------------------------- reorient_inconsistent_triangles
\* (variant: the range test off by one)
SeedOutOfRange_OffByOne(s, n) == s > n

\* `seed >= triangles.size()`
SeedOutOfRange(s, n) == s >= n

\* `degree_of_edge.size() != 2`: degree_of_edge is a std::array<TriangleIndex, 2>,
\* whose size() is 2 whatever the two slots hold
DegreeSizeIsNotTwo(degree_of_edge) == Len(degree_of_edge) # 2

\* the neighbour a triangle is compared with and copied from: the stored
\* triangle of the mesh
NeighborTriangle(neighbor_index) == triangles_[neighbor_index + 1]

\* (variant: to_be_flipped bound as a reference, the flip done in place)
MeshAfterFlip_InPlace(tris, neighbor_index) ==
    IF neighbor_index >= 0 /\ neighbor_index < Len(tris)
    THEN [tris EXCEPT ![neighbor_index + 1] = flip_triangle(@)]
    ELSE tris

\* `Triangle to_be_flipped{triangles[neighbor_index]}` is a copy: flipping it
\* leaves the mesh's triangle list as it was
MeshAfterFlip(tris, neighbor_index) == tris

\* Values the bytes in front of the triangle buffer may hold: anything.  The
\* code asks a value read there for its edges and whether it holds a directed
\* edge, and copies it; the values taken are a triangle that has nothing to do
\* with the mesh, stale copies of the mesh's own triangles and, for every edge
\* of the mesh, a triangle that holds the edge from its first to its second
\* endpoint beside a vertex that is none of the mesh (what glibc's heap shows
\* there after the vertices were copied around).
JunkPoint == <<9, 9, 9>>
JunkTriangle == Triangle(<<7, 7, 7>>, <<8, 8, 8>>, JunkPoint)
HoldingTriangle(edge) == Triangle(edge[1], edge[2], JunkPoint)
GarbageTriangles ==
    {JunkTriangle} \cup { triangles_[k] : k \in 1..NumTriangles }
        \cup { HoldingTriangle(entry.key) : entry \in Entries(edge_connectivity_) }

\* The body of `for (const Edge& edge : edges)` for one edge.  st is the
\* function's local state and triangle what the reference `triangle` reads
\* as in this iteration; bit is what the bit in front of the visited array
\* holds when it is read for the first time, garbage what
\* triangles[neighbor_index] reads as when the index is outside the list
\* (read twice with nothing stored in between: once compared, once copied).
ProcessEdge(st, triangle, triangle_index, edge, bit, garbage) ==
    IF ~Contains(edge_connectivity_, edge) THEN st
    ELSE
    LET degree_of_edge == Second(edge_connectivity_, edge)
        neighbor_index == IF degree_of_edge[1] = triangle_index
                          THEN degree_of_edge[2] ELSE degree_of_edge[1]
    IN  IF DegreeSizeIsNotTwo(degree_of_edge) THEN st
        ELSE IF InRange(neighbor_index)
        THEN IF st.visited[neighbor_index] THEN st
             ELSE LET n == NeighborTriangle(neighbor_index)
                      inconsistent == ~are_orientations_consistent(triangle, n, edge)
                  IN  [st EXCEPT
                         !.flipped = IF inconsistent THEN Append(@, flip_triangle(n)) ELSE @,
                         !.from    = IF inconsistent THEN Append(@, neighbor_index) ELSE @,
                         !.mesh    = IF inconsistent THEN MeshAfterFlip(@, neighbor_index) ELSE @,
                         !.visited = [@ EXCEPT ![neighbor_index] = TRUE],
                         !.queue   = Append(@, neighbor_index)]
        ELSE \* visited_triangles[neighbor_index] is outside the array
             LET b == IF st.memv = "unread" THEN bit ELSE st.memv
             IN  IF b = "set"
                 THEN [st EXCEPT !.memv = "set", !.oob = TRUE]
                 ELSE LET n == garbage
                          inconsistent == ~are_orientations_consistent(triangle, n, edge)
                      IN  [st EXCEPT
                             !.flipped = IF inconsistent THEN Append(@, flip_triangle(n)) ELSE @,
                             !.from    = IF inconsistent THEN Append(@, neighbor_index) ELSE @,
                             !.memv    = "set",
                             !.written = TRUE,
                             !.oob     = TRUE,
                             !.queue   = Append(@, neighbor_index)]

\* The body of `while (!queue.empty())` for the triangle at the queue's
\* front.  `triangle` is a reference into the list, so an index outside the
\* list is read again wherever the reference is used: garbage[1] is what
\* the bytes hold when the edges are made, garbage[k + 1] what they hold in
\* the iteration for edge k (the pushes in between may have reused the
\* memory).
ProcessTriangle(st0, bit, garbage) ==
    LET triangle_index == Head(st0.queue)
        st == [st0 EXCEPT !.queue = Tail(@),
                          !.popped = Append(@, triangle_index),
                          !.oob = @ \/ ~InRange(triangle_index)]
        triangle(k) == IF InRange(triangle_index)
                       THEN triangles_[triangle_index + 1] ELSE garbage[k]
        edges == TriangleEdges(triangle(1))
        s1 == ProcessEdge(st, triangle(2), triangle_index, edges[1], bit, garbage[2])
        s2 == ProcessEdge(s1, triangle(3), triangle_index, edges[2], bit, garbage[3])
    IN  ProcessEdge(s2, triangle(4), triangle_index, edges[3], bit, garbage[4])

LocalState ==
    [visited |-> visited_triangles, queue |-> queue, flipped |-> flipped_triangles,
     from |-> flipped_from, memv |-> mem_visited,
     oob |-> oob_access, written |-> heap_written, mesh |-> triangles_,
     popped |-> dequeued]

\* entry of reorient_inconsistent_triangles(mesh, s) up to the loop
ReorientStart(s) ==
    /\ mesh_state = "ready"
    /\ r_pc \in {"idle", "returned"}
    /\ seed' = s
    /\ flipped_triangles' = <<>> /\ flipped_from' = <<>>
    /\ mem_visited' = "unread"
    /\ oob_access' = FALSE /\ heap_written' = FALSE /\ dequeued' = <<>>
    /\ IF SeedOutOfRange(s, NumTriangles)
       THEN /\ r_pc' = "returned"
            /\ visited_triangles' = NoVisited
            /\ queue' = <<>>
       ELSE /\ r_pc' = "running"
            /\ visited_triangles' = [k \in 0..(NumTriangles - 1) |-> k = s]
            /\ queue' = <<s>>
    /\ DropVoidResults
    /\ UNCHANGED << mesh_vars, flips_returned >>
    /\ UNCHANGED pure_vars

\* what the bit in front of the visited array can read as: anything on the
\* first read, afterwards what the first read or a write left there
UnreadBits == IF mem_visited = "unread" THEN {"set", "clear"} ELSE {mem_visited}

\* some edge of the mesh has one triangle only, so that its second entry is
\* the sentinel index
HasBoundaryEdge ==
    \E entry \in Entries(edge_connectivity_) :
        entry.value[2] = kBoundaryTriangleIndex

\* What the reads of triangles[size_t(-1)] in one iteration return, as
\* <<at the edges, at edge 1, at edge 2, at edge 3>>: the bytes lie outside
\* the list and every read is free to find another value there.  With an
\* index of the list at the queue's front at most one edge reads them (the
\* bit in front of the visited array is set by then), so one value is drawn;
\* a mesh without boundary edge never reads them.  With the sentinel at the
\* queue's front the value read at the edges gives the three edges, and the
\* value read at edge k is only asked whether it holds that edge from its
\* first to its second endpoint: it does or it does not.
UnreadTriangles ==
    IF ~HasBoundaryEdge THEN { [k \in 1..4 |-> JunkTriangle] }
    ELSE IF InRange(Head(queue))
    THEN { [k \in 1..4 |-> g] : g \in GarbageTriangles }
    ELSE { [k \in 1..4 |->
              IF k = 1 THEN g
              ELSE IF holds[k - 1] THEN HoldingTriangle(TriangleEdges(g)[k - 1])
              ELSE JunkTriangle] :
           g \in GarbageTriangles, holds \in [1..3 -> BOOLEAN] }

\* one iteration of the BFS loop
ReorientStep ==
    /\ r_pc = "running"
    /\ queue # <<>>
    /\ \E bit \in UnreadBits, garbage \in UnreadTriangles :
         \* the locals after the iteration, computed once
         \E st \in {ProcessTriangle(LocalState, bit, garbage)} :
             /\ visited_triangles' = st.visited
             /\ queue' = st.queue
             /\ flipped_triangles' = st.flipped
             /\ flipped_from' = st.from
             /\ mem_visited' = st.memv
             /\ oob_access' = st.oob
             /\ heap_written' = st.written
             /\ dequeued' = st.popped
             /\ triangles_' = st.mesh
    /\ UNCHANGED << r_pc, seed, input, file, ctor, mesh_state, error, error_index,
                    error_reason, i, edge_connectivity_, void_vars, flips_returned >>
    /\ UNCHANGED pure_vars

\* the loop ends and the locals are destroyed: freeing the visited array
\* after a write in front of it either is detected by the allocator, which
\* aborts the process, or goes unnoticed
ReorientReturn ==
    /\ r_pc = "running"
    /\ queue = <<>>
    /\ \/ r_pc' = "returned" /\ flips_returned' = (flips_returned \/ flipped_triangles # <<>>)
       \/ heap_written /\ r_pc' = "crashed" /\ UNCHANGED flips_returned
    /\ UNCHANGED << seed, visited_triangles, queue, flipped_triangles, flipped_from,
                    mem_visited, oob_access, heap_written, dequeued,
                    mesh_vars,
                    void_vars >>
    /\ UNCHANGED pure_vars

\* ------------------------------------------------------ void_detection.cpp
\* (variant: the neighbor is marked visited but never enqueued)
VisitEdge_NoEnqueue(st, triangle_index, edge) ==
    IF ~Contains(edge_connectivity_, edge) THEN st
    ELSE
    LET degree_of_edge == Second(edge_connectivity_, edge)
        neighbor_index == IF degree_of_edge[1] = triangle_index
                          THEN degree_of_edge[2] ELSE degree_of_edge[1]
    IN  IF degree_of_edge[2] = kBoundaryTriangleIndex THEN st
        ELSE IF st.visited[neighbor_index] THEN st
        ELSE [st EXCEPT !.visited = [@ EXCEPT ![neighbor_index] = TRUE]]

\* the body of the edge loop of find_connected_components for one edge
VisitEdge(st, triangle_index, edge) ==
    IF ~Contains(edge_connectivity_, edge) THEN st
    ELSE
    LET degree_of_edge == Second(edge_connectivity_, edge)
        neighbor_index == IF degree_of_edge[1] = triangle_index
                          THEN degree_of_edge[2] ELSE degree_of_edge[1]
    IN  IF degree_of_edge[2] = kBoundaryTriangleIndex THEN st
        ELSE IF st.visited[neighbor_index] THEN st
        ELSE [st EXCEPT !.visited = [@ EXCEPT ![neighbor_index] = TRUE],
                        !.queue = Append(@, neighbor_index)]

\* (variant: only the first edge of a triangle is examined)
ExaminedEdges_FirstOnly == {1}

\* `for (const Edge& edge : edges)`: the positions of `edges` the loop visits
ExaminedEdges == {1, 2, 3}

\* the inner `while (!queue.empty())` loop, run to its end
RECURSIVE ComponentBFS(_)
ComponentBFS(st0) ==
    IF st0.queue = <<>> THEN st0
    ELSE LET triangle_index == Head(st0.queue)
             st == [st0 EXCEPT !.queue = Tail(@),
                               !.component = Append(@, triangle_index)]
             edges == TriangleEdges(triangles_[triangle_index + 1])
             s1 == IF 1 \in ExaminedEdges
                   THEN VisitEdge(st, triangle_index, edges[1]) ELSE st
             s2 == IF 2 \in ExaminedEdges
                   THEN VisitEdge(s1, triangle_index, edges[2]) ELSE s1
             s3 == IF 3 \in ExaminedEdges
                   THEN VisitEdge(s2, triangle_index, edges[3]) ELSE s2
         IN  ComponentBFS(s3)

\* (variant: the scan returns the largest unvisited index)
smallest_unvisited_triangle_index_Largest(visited) ==
    IF \E k \in 0..(NumTriangles - 1) : ~visited[k]
    THEN CHOOSE k \in 0..(NumTriangles - 1) :
            /\ ~visited[k]
            /\ \A j \in (k + 1)..(NumTriangles - 1) : visited[j]
    ELSE NumTriangles

\* the lambda of find_connected_components
smallest_unvisited_triangle_index(visited) ==
    IF \E k \in 0..(NumTriangles - 1) : ~visited[k]
    THEN CHOOSE k \in 0..(NumTriangles - 1) :
            /\ ~visited[k]
            /\ \A j \in 0..(k - 1) : visited[j]
    ELSE NumTriangles

\* the outer `while (true)` loop, run to its end
RECURSIVE ComponentLoop(_, _)
ComponentLoop(visited, comps) ==
    LET s == smallest_unvisited_triangle_index(visited)
    IN  IF s >= NumTriangles THEN comps
        ELSE LET r == ComponentBFS([visited |-> [visited EXCEPT ![s] = TRUE],
                                    queue |-> <<s>>, component |-> <<>>])
             IN  ComponentLoop(r.visited, Append(comps, r.component))

find_connected_components ==
    ComponentLoop([k \in 0..(NumTriangles - 1) |-> FALSE], <<>>)

\* (variant: only the first edge of each triangle is looked up)
is_connected_component_closed_FirstEdgeOnly(component) ==
    \A k \in 1..Len(component) :
        LET edges == TriangleEdges(triangles_[component[k] + 1])
        IN  /\ Contains(edge_connectivity_, edges[1])
            /\ Second(edge_connectivity_, edges[1])[2] # kBoundaryTriangleIndex

is_connected_component_closed(component) ==
    \A k \in 1..Len(component) :
        LET edges == TriangleEdges(triangles_[component[k] + 1])
        IN  \A j \in 1..3 :
               /\ Contains(edge_connectivity_, edges[j])
               /\ Second(edge_connectivity_, edges[j])[2] # kBoundaryTriangleIndex

\* A double of the form n + k * kEpsilon (kEpsilon = 1e-9) is the pair
\* <<n, k>>; for the small n and k used here that sum is computed without
\* absorbing k * kEpsilon, so pairs compare as the doubles do.  A NaN and a
\* large double are the same double after k * kEpsilon is added to them.
Scalar(n) == <<n, 0>>

\* u < v and u <= v on doubles: false when either is a NaN
ScalarLess(u, v) ==
    /\ u[1] # NaN /\ v[1] # NaN
    /\ \/ DoubleValue(u[1]) < DoubleValue(v[1])
       \/ (DoubleValue(u[1]) = DoubleValue(v[1]) /\ u[2] < v[2])

ScalarLeq(u, v) ==
    /\ u[1] # NaN /\ v[1] # NaN
    /\ \/ DoubleValue(u[1]) < DoubleValue(v[1])
       \/ (DoubleValue(u[1]) = DoubleValue(v[1]) /\ u[2] <= v[2])

\* std::min(u, v) is `(v < u) ? v : u`, std::max(u, v) is `(u < v) ? v : u`
ScalarMin(u, v) == IF ScalarLess(v, u) THEN v ELSE u
ScalarMax(u, v) == IF ScalarLess(u, v) THEN v ELSE u

\* u + k * kEpsilon
ScalarAdd(u, k) == IF u[1] = NaN \/ IsLarge(u[1]) THEN u ELSE <<u[1], u[2] + k>>

\* `min_x > max_x || min_y > max_y || min_z > max_z`
MinExceedsMax(lo, hi) == \E d \in 1..3 : ScalarLess(hi[d], lo[d])

\* AxisAlignedBoundingBox(min_x, min_y, min_z, max_x, max_y, max_z)
AabbFromScalars(lo, hi) ==
    IF MinExceedsMax(lo, hi)
    THEN [status |-> "thrown", box |-> <<>>]
    ELSE [status |-> "ok", box |-> [min |-> lo, max |-> hi]]

\* AxisAlignedBoundingBox(a, b, pad), which delegates to the constructor above
AabbFromPoints(a, b, pad) ==
    AabbFromScalars(
        [d \in 1..3 |-> ScalarAdd(ScalarMin(Scalar(a[d]), Scalar(b[d])), -pad)],
        [d \in 1..3 |-> ScalarAdd(ScalarMax(Scalar(a[d]), Scalar(b[d])), pad)])

\* the `expand` lambda of compute_component_aabb
ExpandBox(box, point) ==
    [min |-> [d \in 1..3 |-> ScalarMin(box.min[d], Scalar(point[d]))],
     max |-> [d \in 1..3 |-> ScalarMax(box.max[d], Scalar(point[d]))]]

\* (variant: vertex c of a triangle is left out)
ExpandTriangle_WithoutC(box, t) == ExpandBox(ExpandBox(box, t.a), t.b)

\* expand(t.a); expand(t.b); expand(t.c)
ExpandTriangle(box, t) == ExpandBox(ExpandBox(ExpandBox(box, t.a), t.b), t.c)

RECURSIVE ExpandComponent(_, _, _)
ExpandComponent(box, component, k) ==
    IF k > Len(component) THEN box
    ELSE ExpandComponent(ExpandTriangle(box, triangles_[component[k] + 1]), component, k + 1)

\* `AxisAlignedBoundingBox box{std::min(t0.a[0], std::min(t0.b[0], t0.c[0])),
\* ..., std::max(t0.a[2], std::max(t0.b[2], t0.c[2]))}`
FirstBox(t0) ==
    AabbFromScalars(
        [d \in 1..3 |->
            ScalarMin(Scalar(t0.a[d]), ScalarMin(Scalar(t0.b[d]), Scalar(t0.c[d])))],
        [d \in 1..3 |->
            ScalarMax(Scalar(t0.a[d]), ScalarMax(Scalar(t0.b[d]), Scalar(t0.c[d])))])

\* pad is given in units of kEpsilon
compute_component_aabb(component, pad) ==
    LET box == ExpandComponent(FirstBox(triangles_[component[1] + 1]).box, component, 1)
    IN  [min |-> [d \in 1..3 |-> ScalarAdd(box.min[d], -pad)],
         max |-> [d \in 1..3 |-> ScalarAdd(box.max[d], pad)]]

\* tol is given in units of kEpsilon
aabb_contains(outer, inner, tol) ==
    \A d \in 1..3 :
        /\ ScalarLeq(outer.min[d], ScalarAdd(inner.min[d], -tol))
        /\ ScalarLeq(ScalarAdd(inner.max[d], tol), outer.max[d])

\* (variant: outer and inner box are passed the other way round)
IsVoidAt_Swapped(closed_components, k) ==
    LET aabb(j) == compute_component_aabb(closed_components[j], 1)
    IN  \E j \in 1..Len(closed_components) :
           j # k /\ aabb_contains(aabb(k), aabb(j), 1)

\* is_void of identify_voids for the component at position k (1-based)
IsVoidAt(closed_components, k) ==
    LET aabb(j) == compute_component_aabb(closed_components[j], 1)
    IN  \E j \in 1..Len(closed_components) :
           j # k /\ aabb_contains(aabb(j), aabb(k), 1)

RECURSIVE CollectVoids(_, _)
CollectVoids(closed_components, k) ==
    IF k > Len(closed_components) THEN <<>>
    ELSE (IF IsVoidAt(closed_components, k) THEN <<closed_components[k]>> ELSE <<>>)
         \o CollectVoids(closed_components, k + 1)

identify_voids(closed_components) ==
    IF Len(closed_components) < 2 THEN <<>>
    ELSE CollectVoids(closed_components, 1)

\* the sub-list of list at the positions of sel, in list order
RECURSIVE SubList(_, _, _)
SubList(list, sel, k) ==
    IF k > Len(list) THEN <<>>
    ELSE (IF k \in sel THEN <<list[k]>> ELSE <<>>) \o SubList(list, sel, k + 1)

\* a caller may call the operations below whenever it holds a mesh and the
\* process is alive
CanCall == mesh_state = "ready" /\ r_pc \in {"idle", "returned"}

FindConnectedComponents ==
    /\ CanCall
    /\ components' = find_connected_components
    /\ components_found' = TRUE
    /\ DropReorientResult
    /\ DropAux
    /\ UNCHANGED << mesh_vars, flips_returned, closed_arg, closed_result, void_input, voids,
                    voids_found >>
    /\ UNCHANGED pure_vars

IsConnectedComponentClosed(k) ==
    /\ CanCall
    /\ components_found
    /\ k \in 1..Len(components)
    /\ closed_arg' = components[k]
    /\ closed_result' = is_connected_component_closed(components[k])
    /\ DropReorientResult
    /\ DropAux
    /\ UNCHANGED << mesh_vars, flips_returned, components, components_found, void_input, voids,
                    voids_found >>
    /\ UNCHANGED pure_vars

IdentifyVoids(sel) ==
    /\ CanCall
    /\ components_found
    /\ sel \subseteq 1..Len(components)
    /\ LET list == SubList(components, sel, 1)
       IN  /\ void_input' = list
           /\ voids' = identify_voids(list)
    /\ voids_found' = TRUE
    /\ DropReorientResult
    /\ DropAux
    /\ UNCHANGED << mesh_vars, flips_returned, components, components_found, closed_arg,
                    closed_result >>
    /\ UNCHANGED pure_vars

\* (variant: every component is passed on to identify_voids)
KeepsComponent_All(component) == TRUE

\* step 2 of export_voids_to_stl: the test that keeps a component
KeepsComponent(component) == is_connected_component_closed(component)

\* step 2 of export_voids_to_stl: the kept components, in list order
RECURSIVE ClosedComponents(_, _)
ClosedComponents(connected_components, k) ==
    IF k > Len(connected_components) THEN <<>>
    ELSE (IF KeepsComponent(connected_components[k])
          THEN <<connected_components[k]>> ELSE <<>>)
         \o ClosedComponents(connected_components, k + 1)

\* the inner loop of step 4: the triangles of one component, in list order
TrianglesOf(comp) == [m \in 1..Len(comp) |-> triangles_[comp[m] + 1]]

\* step 4 of export_voids_to_stl: triangles_to_write
RECURSIVE TrianglesToWrite(_, _)
TrianglesToWrite(void_components, k) ==
    IF k > Len(void_components) THEN <<>>
    ELSE TrianglesOf(void_components[k]) \o TrianglesToWrite(void_components, k + 1)

\* the triangle list export_voids_to_stl hands to write_ascii_stl
export_voids_to_stl ==
    LET connected_components == find_connected_components
        closed_components == ClosedComponents(connected_components, 1)
    IN  TrianglesToWrite(identify_voids(closed_components), 1)

ExportVoidsToStl ==
    /\ CanCall
    /\ stl_out' = export_voids_to_stl
    /\ exported' = TRUE
    /\ last_box' = <<>> /\ box_status' = "none" /\ box_op' = "none"
    /\ box_component' = <<>> /\ box_pad' = 0
    /\ components' = <<>> /\ components_found' = FALSE
    /\ DropClosedAndVoids
    /\ DropReorientResult
    /\ UNCHANGED << mesh_vars, flips_returned >>
    /\ UNCHANGED pure_vars

\* pad values callers pass, in units of kEpsilon (the default is 1)
PadValues == {-1, 0, 1}

\* callers build boxes from the vertices of the first triangle of the mesh
VertexNames == {"a", "b", "c"}

\* what an AABB operation leaves of the other results
KeepForBox ==
    /\ stl_out' = <<>> /\ exported' = FALSE
    /\ DropClosedAndVoids
    /\ DropReorientResult
    /\ UNCHANGED << mesh_vars, flips_returned, components, components_found >>
    /\ UNCHANGED pure_vars

\* the two constructors depend on their arguments only: the model calls them
\* on a mesh for which no other result is held
HoldsNoResult == ReorientIdle /\ VoidIdle

ConstructAabbFromScalars(va, vb) ==
    /\ CanCall /\ HoldsNoResult /\ NumTriangles >= 1
    /\ LET lo == triangles_[1][va]
           hi == triangles_[1][vb]
           r == AabbFromScalars([d \in 1..3 |-> Scalar(lo[d])],
                                [d \in 1..3 |-> Scalar(hi[d])])
       IN  last_box' = r.box /\ box_status' = r.status
    /\ box_op' = "scalars"
    /\ box_component' = <<>> /\ box_pad' = 0
    /\ KeepForBox

ConstructAabbFromPoints(va, vb, pad) ==
    /\ CanCall /\ HoldsNoResult /\ NumTriangles >= 1
    /\ LET r == AabbFromPoints(triangles_[1][va], triangles_[1][vb], pad)
       IN  last_box' = r.box /\ box_status' = r.status
    /\ box_op' = "points"
    /\ box_component' = <<>> /\ box_pad' = 0
    /\ KeepForBox

\* the orders in which a caller lists the triangles of a component: as
\* find_connected_components returned them, backwards, or starting from the
\* second one
ComponentOrders == {"found", "reversed", "rotated"}

Arranged(component, order) ==
    IF order = "reversed"
    THEN [k \in 1..Len(component) |-> component[Len(component) + 1 - k]]
    ELSE IF order = "rotated"
    THEN [k \in 1..Len(component) |-> component[(k % Len(component)) + 1]]
    ELSE component

ComputeComponentAabb(k, pad, order) ==
    /\ CanCall
    /\ components_found
    /\ k \in 1..Len(components)
    /\ last_box' = compute_component_aabb(Arranged(components[k], order), pad)
    /\ box_status' = "ok"
    /\ box_op' = "component"
    /\ box_component' = Arranged(components[k], order)
    /\ box_pad' = pad
    /\ KeepForBox

Next ==
    \/ DefaultConstruct
    \/ ConstructParse
    \/ ConstructCheck
    \/ ConstructBuild
    \/ \E s \in 0..MaxSeed : ReorientStart(s)
    \/ ReorientStep
    \/ ReorientReturn
    \/ FindConnectedComponents
    \/ \E k \in 1..MaxComponents : IsConnectedComponentClosed(k)
    \/ \E sel \in SUBSET (1..MaxComponents) : IdentifyVoids(sel)
    \/ ExportVoidsToStl
    \/ \E va, vb \in VertexNames : ConstructAabbFromScalars(va, vb)
    \/ \E va, vb \in VertexNames, pad \in PadValues : ConstructAabbFromPoints(va, vb, pad)
    \/ \E k \in 1..MaxComponents, pad \in PadValues, order \in ComponentOrders :
          ComputeComponentAabb(k, pad, order)

Spec == Init /\ [][Next]_vars

\* ------------------------------------- the geometry functions on their own
\* make_edge, EdgeHash, EdgeEquality, flip_triangle and has_directed_edge
\* called on points a caller chooses, with no mesh involved
GeomPoints ==
    { <<0, 0, 0>>, <<1, 0, 0>>, <<0, 1, 0>>, <<0, 0, 1>>, <<1, 1, 0>>,
      <<NegZero, 0, 0>>, <<NaN, 0, 0>>, <<0, NaN, 1>>, <<1, NaN, 0>> }

\* no mesh is constructed and no mesh function is called
MeshUnused ==
    /\ input = <<>> /\ file = "open"
    /\ ctor = "none"
    /\ mesh_state = "none"
    /\ error = "none" /\ error_index = -1 /\ error_reason = "none"
    /\ i = 0
    /\ triangles_ = <<>>
    /\ edge_connectivity_ = EmptyMap
    /\ flips_returned = FALSE
    /\ ReorientIdle
    /\ VoidIdle

GeomInit ==
    /\ MeshUnused
    /\ StlIdle
    /\ PolyIdle
    /\ g_pc = "drawn"
    /\ g_p \in GeomPoints /\ g_q \in GeomPoints /\ g_r \in GeomPoints
    /\ GeomResultsUnset

\* std::unordered_map<Edge, V, EdgeHash, EdgeEquality>::find: an entry is
\* found when a key has the hash code of e and compares equal to e
MapFind(keys, e) ==
    \E k \in keys : EdgeHash(k) = EdgeHash(e) /\ EdgeEquality(k, e)

\* make_edge on the two points in both orders, and EdgeHash of the results
GeomMakeEdges ==
    /\ g_pc = "drawn"
    /\ edge_pq' = make_edge(g_p, g_q)
    /\ edge_qp' = make_edge(g_q, g_p)
    /\ hash_pq' = EdgeHash(make_edge(g_p, g_q))
    /\ hash_qp' = EdgeHash(make_edge(g_q, g_p))
    /\ g_pc' = "edges"
    /\ UNCHANGED << g_p, g_q, g_r, map_found, flipped_once, flipped_twice >>
    /\ UNCHANGED << mesh_vars, reorient_vars, void_vars, flips_returned >>
    /\ UNCHANGED << stl_vars, poly_vars >>

\* an entry is stored under one edge and looked up under the other
GeomMapLookup ==
    /\ g_pc = "edges"
    /\ map_found' = MapFind({edge_pq}, edge_qp)
    /\ g_pc' = "looked_up"
    /\ UNCHANGED << g_p, g_q, g_r, edge_pq, edge_qp, hash_pq, hash_qp, flipped_once,
                    flipped_twice >>
    /\ UNCHANGED << mesh_vars, reorient_vars, void_vars, flips_returned >>
    /\ UNCHANGED << stl_vars, poly_vars >>

\* flip_triangle on the triangle (g_p, g_q, g_r)
GeomFlip ==
    /\ g_pc = "looked_up"
    /\ flipped_once' = flip_triangle(Triangle(g_p, g_q, g_r))
    /\ g_pc' = "flipped"
    /\ UNCHANGED << g_p, g_q, g_r, edge_pq, edge_qp, hash_pq, hash_qp, map_found,
                    flipped_twice >>
    /\ UNCHANGED << mesh_vars, reorient_vars, void_vars, flips_returned >>
    /\ UNCHANGED << stl_vars, poly_vars >>

\* flip_triangle on the flipped triangle
GeomFlipAgain ==
    /\ g_pc = "flipped"
    /\ flipped_twice' = flip_triangle(flipped_once)
    /\ g_pc' = "flipped_twice"
    /\ UNCHANGED << g_p, g_q, g_r, edge_pq, edge_qp, hash_pq, hash_qp, map_found,
                    flipped_once >>
    /\ UNCHANGED << mesh_vars, reorient_vars, void_vars, flips_returned >>
    /\ UNCHANGED << stl_vars, poly_vars >>

GeomNext ==
    \/ GeomMakeEdges
    \/ GeomMapLookup
    \/ GeomFlip
    \/ GeomFlipAgain

GeometrySpec == GeomInit /\ [][GeomNext]_vars

\* ----------------------------------------------------------- stl_io.cpp
\* A text is a sequence of one-character strings. A parsed coordinate is a
\* record [m, e] that stands for the double nearest to m * 10^(-e), with m
\* not a multiple of 10 (zero is [0, 0]); in the normal range decimal texts
\* of at most nine significant digits denote different doubles exactly when
\* their records differ. The m of a NaN, an infinity and of -0.0 is one of
\* the values below; the sign bit of a NaN is kept because it is written.
\* the vertical tab, for which a string has no escape: a character of its own
VerticalTab == "\\v"

\* the characters std::isspace accepts in the "C" locale
Whitespace == {" ", "\n", "\t", "\r", "\f", VerticalTab}

Digits == {"0", "1", "2", "3", "4", "5", "6", "7", "8", "9"}

DigitValue(c) ==
    CASE c = "0" -> 0 [] c = "1" -> 1 [] c = "2" -> 2 [] c = "3" -> 3
      [] c = "4" -> 4 [] c = "5" -> 5 [] c = "6" -> 6 [] c = "7" -> 7
      [] c = "8" -> 8 [] c = "9" -> 9

\* the lower-case letter of each upper-case letter
LowerCase ==
    [ A |-> "a", B |-> "b", C |-> "c", D |-> "d", E |-> "e", F |-> "f", G |-> "g",
      H |-> "h", I |-> "i", J |-> "j", K |-> "k", L |-> "l", M |-> "m", N |-> "n",
      O |-> "o", P |-> "p", Q |-> "q", R |-> "r", S |-> "s", T |-> "t", U |-> "u",
      V |-> "v", W |-> "w", X |-> "x", Y |-> "y", Z |-> "z" ]

UpperCase == DOMAIN LowerCase

\* strtod compares the words and the letters of a number without regard to case
ToLower(c) == IF c \in UpperCase THEN LowerCase[c] ELSE c

HexDigits == Digits \cup {"a", "b", "c", "d", "e", "f", "A", "B", "C", "D", "E", "F"}

HexValue(c) ==
    IF c \in Digits THEN DigitValue(c)
    ELSE CASE ToLower(c) = "a" -> 10 [] ToLower(c) = "b" -> 11 [] ToLower(c) = "c" -> 12
           [] ToLower(c) = "d" -> 13 [] ToLower(c) = "e" -> 14 [] ToLower(c) = "f" -> 15

\* the characters of the n-char-sequence of "nan(...)"
NChars == Digits \cup UpperCase \cup { LowerCase[c] : c \in UpperCase } \cup {"_"}

\* the character at position k, or the terminating NUL
CharAt(tok, k) == IF k >= 1 /\ k <= Len(tok) THEN tok[k] ELSE ""

\* the first position >= k that holds no character of the set
RECURSIVE SkipWhile(_, _, _)
SkipWhile(tok, k, chars) ==
    IF CharAt(tok, k) \in chars THEN SkipWhile(tok, k + 1, chars) ELSE k

SkipDigits(tok, k) == SkipWhile(tok, k, Digits)

\* the word stands at position k, in any mix of upper and lower case
MatchesAt(tok, k, word) ==
    \A j \in 1..Len(word) : ToLower(CharAt(tok, k + j - 1)) = word[j]

\* the number written by the digits at positions k .. end - 1
RECURSIVE DigitsValue(_, _, _, _)
DigitsValue(tok, k, end, acc) ==
    IF k >= end THEN acc
    ELSE DigitsValue(tok, k + 1, end, acc * 10 + DigitValue(tok[k]))

\* the same for hexadecimal digits
RECURSIVE HexDigitsValue(_, _, _, _)
HexDigitsValue(tok, k, end, acc) ==
    IF k >= end THEN acc
    ELSE HexDigitsValue(tok, k + 1, end, acc * 16 + HexValue(tok[k]))

\* an exponent; beyond kExponentCap its size no longer matters (the result is
\* an infinity or a zero)
kExponentCap == 100000

RECURSIVE ExponentValue(_, _, _, _)
ExponentValue(tok, k, end, acc) ==
    IF k >= end THEN acc
    ELSE ExponentValue(tok, k + 1, end,
                       IF acc >= kExponentCap THEN acc ELSE acc * 10 + DigitValue(tok[k]))

RECURSIVE Pow(_, _)
Pow(b, n) == IF n <= 0 THEN 1 ELSE b * Pow(b, n - 1)

\* number of decimal digits of n > 0, and of binary digits
RECURSIVE NumDigits(_)
NumDigits(n) == IF n < 10 THEN 1 ELSE 1 + NumDigits(n \div 10)

RECURSIVE BitLength(_)
BitLength(n) == IF n = 0 THEN 0 ELSE 1 + BitLength(n \div 2)

\* The double for the magnitude m * 10^(-e), m >= 0: an infinity from
\* DBL_MAX + half an ulp = 1.797693134862315807e308 on, a zero up to half the
\* smallest subnormal 2^-1075 = 2.4703282292062327e-324. (Between 2^-1075
\* and DBL_MIN the doubles are subnormal and hold fewer digits than the
\* record, which keeps the decimal.)  The mantissas from NegNaN on are the
\* m of a NaN and of the infinities: a decimal with such a mantissa is given
\* as the exact double it is rounded to.
RoundToDouble(negative, m, e) ==
    IF m = 0 THEN SignedZero(negative)
    ELSE
    LET n == Normalize(m, e)
        digits == NumDigits(n.m)
        \* decimal exponent of the leading digit
        exp10 == digits - 1 - n.e
        overflows == IF digits = 10 THEN n.m >= 1797693135
                     ELSE n.m * Pow10(9 - digits) >= 179769314
        underflows == digits = 10 \/ n.m * Pow10(9 - digits) <= 247032822
    IN  IF exp10 > 308 \/ (exp10 = 308 /\ overflows) THEN SignedInfinity(negative)
        ELSE IF exp10 < -324 \/ (exp10 = -324 /\ underflows) THEN SignedZero(negative)
        ELSE IF n.m >= NegNaN THEN ExactDecimal(negative, n.m, n.e)
        ELSE [m |-> IF negative THEN 0 - n.m ELSE n.m, e |-> n.e]

\* m * 2^e2 with the factors of two of m moved into a negative e2
RECURSIVE ReduceBinary(_, _)
ReduceBinary(m, e2) ==
    IF e2 < 0 /\ m # 0 /\ m % 2 = 0 THEN ReduceBinary(m \div 2, e2 + 1)
    ELSE [m |-> m, e2 |-> e2]

\* The double for the magnitude m * 2^e2, m >= 0, of a hexadecimal number:
\* an infinity from 2^1024 on, a zero up to 2^-1075.
RoundBinaryToDouble(negative, m, e2) ==
    IF m = 0 THEN SignedZero(negative)
    ELSE
    LET top == BitLength(m) + e2
        power_of_two == m = Pow(2, BitLength(m) - 1)
        r == ReduceBinary(m, e2)
    IN  IF top > 1024 THEN SignedInfinity(negative)
        ELSE IF top < -1074 \/ (top = -1074 /\ power_of_two) THEN SignedZero(negative)
        ELSE IF r.e2 >= 0 THEN RoundToDouble(negative, r.m * Pow(2, r.e2), 0)
        ELSE RoundToDouble(negative, r.m * Pow(5, 0 - r.e2), 0 - r.e2)

\* "inf" or "infinity" at position k: the position after it
InfinityEnd(tok, k) ==
    IF MatchesAt(tok, k, <<"i", "n", "f", "i", "n", "i", "t", "y">>) THEN k + 8 ELSE k + 3

\* "nan" at position k, with "(n-char-sequence)" when it is complete: the
\* position after it
NanEnd(tok, k) ==
    LET close == SkipWhile(tok, k + 4, NChars)
    IN  IF CharAt(tok, k + 3) = "(" /\ CharAt(tok, close) = ")" THEN close + 1 ELSE k + 3

\* a hexadecimal number starts at position k: "0x" and a hexadecimal digit,
\* before or behind the point
HexStartsAt(tok, k) ==
    /\ CharAt(tok, k) = "0"
    /\ ToLower(CharAt(tok, k + 1)) = "x"
    /\ \/ CharAt(tok, k + 2) \in HexDigits
       \/ CharAt(tok, k + 2) = "." /\ CharAt(tok, k + 3) \in HexDigits

\* "0x" digits [. digits] [p [sign] digits] from position k on: the position
\* behind the number, and where its parts are
HexNumber(tok, k) ==
    LET intEnd == SkipWhile(tok, k + 2, HexDigits)
        hasDot == CharAt(tok, intEnd) = "."
        fracEnd == IF hasDot THEN SkipWhile(tok, intEnd + 1, HexDigits) ELSE intEnd
        hasP == ToLower(CharAt(tok, fracEnd)) = "p"
        expSigned == CharAt(tok, fracEnd + 1) \in {"+", "-"}
        expStart == IF expSigned THEN fracEnd + 2 ELSE fracEnd + 1
        expEnd == SkipDigits(tok, expStart)
        hasExp == hasP /\ expEnd > expStart
        expAbs == IF hasExp THEN ExponentValue(tok, expStart, expEnd, 0) ELSE 0
    IN  [form |-> "hex", end |-> IF hasExp THEN expEnd ELSE fracEnd,
         start |-> k + 2, intEnd |-> intEnd, fracEnd |-> fracEnd,
         nFrac |-> IF hasDot THEN fracEnd - (intEnd + 1) ELSE 0,
         exp |-> IF hasExp /\ CharAt(tok, fracEnd + 1) = "-" THEN 0 - expAbs ELSE expAbs]

\* digits [. digits] [e [sign] digits] from position k on; without a digit
\* nothing is converted and the end is the start of the token
DecimalNumber(tok, k) ==
    LET intEnd == SkipDigits(tok, k)
        hasDot == CharAt(tok, intEnd) = "."
        fracEnd == IF hasDot THEN SkipDigits(tok, intEnd + 1) ELSE intEnd
        nFrac == IF hasDot THEN fracEnd - (intEnd + 1) ELSE 0
        hasDigits == (intEnd - k) + nFrac > 0
        hasE == ToLower(CharAt(tok, fracEnd)) = "e"
        expSigned == CharAt(tok, fracEnd + 1) \in {"+", "-"}
        expStart == IF expSigned THEN fracEnd + 2 ELSE fracEnd + 1
        expEnd == SkipDigits(tok, expStart)
        hasExp == hasE /\ expEnd > expStart
        expAbs == IF hasExp THEN ExponentValue(tok, expStart, expEnd, 0) ELSE 0
    IN  [form |-> IF hasDigits THEN "decimal" ELSE "none",
         end |-> IF ~hasDigits THEN 1 ELSE IF hasExp THEN expEnd ELSE fracEnd,
         start |-> k, intEnd |-> intEnd, fracEnd |-> fracEnd, nFrac |-> nFrac,
         exp |-> IF hasExp /\ CharAt(tok, fracEnd + 1) = "-" THEN 0 - expAbs ELSE expAbs]

Word(form, end) ==
    [form |-> form, end |-> end, start |-> 0, intEnd |-> 0, fracEnd |-> 0,
     nFrac |-> 0, exp |-> 0]

\* What std::strtod (glibc, "C" locale) converts of a token: an optional
\* sign, then "inf" or "infinity", "nan" with an optional
\* "(n-char-sequence)", a hexadecimal or a decimal number; end is the position
\* behind the characters converted.
StrtodPrefix(tok) ==
    LET p0 == IF CharAt(tok, 1) \in {"+", "-"} THEN 2 ELSE 1
    IN  IF MatchesAt(tok, p0, <<"i", "n", "f">>) THEN Word("inf", InfinityEnd(tok, p0))
        ELSE IF MatchesAt(tok, p0, <<"n", "a", "n">>) THEN Word("nan", NanEnd(tok, p0))
        ELSE IF HexStartsAt(tok, p0) THEN HexNumber(tok, p0)
        ELSE DecimalNumber(tok, p0)

\* the double for the converted characters r of a token. (A number with
\* more significant digits than a record holds is beyond the model.)
ConvertedValue(tok, r, negative) ==
    CASE r.form = "inf" -> SignedInfinity(negative)
      [] r.form = "nan" -> Special(IF negative THEN NegNaN ELSE NaN)
      [] r.form = "hex" ->
            RoundBinaryToDouble(negative,
                HexDigitsValue(tok, r.start, r.intEnd, 0) * Pow(16, r.nFrac)
                + (IF r.nFrac > 0 THEN HexDigitsValue(tok, r.intEnd + 1, r.fracEnd, 0)
                   ELSE 0),
                r.exp - 4 * r.nFrac)
      [] r.form = "decimal" ->
            RoundToDouble(negative,
                DigitsValue(tok, r.start, r.intEnd, 0) * Pow10(r.nFrac)
                + (IF r.nFrac > 0 THEN DigitsValue(tok, r.intEnd + 1, r.fracEnd, 0)
                   ELSE 0),
                r.nFrac - r.exp)
      [] r.form = "none" -> Special(0)

\* the test `endptr != buffer.data() + cursor` on the converted characters
\* r of a token, and the double returned
Converted(tok, r) ==
    IF r.end # Len(tok) + 1
    THEN [ok |-> FALSE, value |-> Special(0)]
    ELSE [ok |-> TRUE, value |-> ConvertedValue(tok, r, CharAt(tok, 1) = "-")]

\* std::strtod on a token
Strtod(tok) == Converted(tok, StrtodPrefix(tok))

\* the token that `token_len == 6 && memcmp(..., "vertex", 6) == 0` accepts
VertexKeyword == <<"v", "e", "r", "t", "e", "x">>

\* the `skip_space` lambda: the first position >= cursor that holds no space
RECURSIVE SkipSpace(_, _)
SkipSpace(buf, cursor) ==
    IF cursor <= Len(buf) /\ buf[cursor] \in Whitespace
    THEN SkipSpace(buf, cursor + 1) ELSE cursor

\* the first position >= cursor that holds a space, or Len(buf) + 1
RECURSIVE SkipToken(_, _)
SkipToken(buf, cursor) ==
    IF cursor <= Len(buf) /\ buf[cursor] \notin Whitespace
    THEN SkipToken(buf, cursor + 1) ELSE cursor

\* (variant: the second and third vertex are stored the other way round)
EmitTriangle_Swapped(vertices) == Triangle(vertices[1], vertices[3], vertices[2])

\* `triangles.push_back({triangle_vertices[0], [1], [2]})`
EmitTriangle(vertices) == Triangle(vertices[1], vertices[2], vertices[3])

\* the branch of consume_buffer that stores a parsed coordinate
StoreCoordinate(st, value) ==
    LET coords == Append(st.coord_buffer, value)
    IN  IF st.remaining_coords - 1 > 0
        THEN [st EXCEPT !.coord_buffer = coords, !.remaining_coords = @ - 1]
        ELSE LET vertices == Append(st.triangle_vertices,
                                    <<coords[1], coords[2], coords[3]>>)
             IN  IF Len(vertices) = 3
                 THEN [st EXCEPT !.coord_buffer = <<>>, !.remaining_coords = 0,
                                 !.triangle_vertices = <<>>,
                                 !.parsed = Append(@, EmitTriangle(vertices))]
                 ELSE [st EXCEPT !.coord_buffer = <<>>, !.remaining_coords = 0,
                                 !.triangle_vertices = vertices]

\* (variant: a token that reaches the end of the buffer is taken as complete)
TokenIncomplete_Never(token_end, buffer_size, eof) == FALSE

\* `cursor == buffer_size && !eof`: the token may continue in the next chunk
TokenIncomplete(token_end, buffer_size, eof) == token_end > buffer_size /\ ~eof

\* the token loop of the consume_buffer lambda, from position cursor (1-based)
RECURSIVE ConsumeFrom(_, _, _)
ConsumeFrom(st, cursor, eof) ==
    LET buffer_size == Len(st.buffer)
        token_start == SkipSpace(st.buffer, cursor)
        token_end == SkipToken(st.buffer, token_start)
        token == SubSeq(st.buffer, token_start, token_end - 1)
        rest == SubSeq(st.buffer, token_start, buffer_size)
    IN  IF token_start > buffer_size
        THEN [st EXCEPT !.buffer = <<>>]
        ELSE IF TokenIncomplete(token_end, buffer_size, eof)
        THEN [st EXCEPT !.buffer = rest]
        ELSE IF st.remaining_coords > 0
        THEN LET r == Strtod(token)
             IN  IF ~r.ok
                 THEN [st EXCEPT !.buffer = rest]
                 ELSE ConsumeFrom(StoreCoordinate(st, r.value), token_end, eof)
        ELSE IF token = VertexKeyword
        THEN ConsumeFrom([st EXCEPT !.remaining_coords = 3, !.coord_buffer = <<>>],
                         token_end, eof)
        ELSE ConsumeFrom(st, token_end, eof)

\* the locals of parse_ascii_stl
ParserState ==
    [buffer |-> buffer, triangle_vertices |-> triangle_vertices,
     coord_buffer |-> coord_buffer, remaining_coords |-> remaining_coords,
     parsed |-> parsed]

consume_buffer(st, eof) == ConsumeFrom(st, 1, eof)

\* --- the texts
Space == <<" ">>
Newline == <<"\n">>
Zero == <<"0">>
One == <<"1">>

\* the tokens of a list, a blank between two of them
RECURSIVE JoinTokens(_)
JoinTokens(tokens) ==
    IF tokens = <<>> THEN <<>>
    ELSE IF Len(tokens) = 1 THEN tokens[1]
    ELSE tokens[1] \o Space \o JoinTokens(Tail(tokens))

\* the items of a list, a line break between two of them
RECURSIVE JoinItems(_)
JoinItems(items) ==
    IF items = <<>> THEN <<>>
    ELSE IF Len(items) = 1 THEN items[1]
    ELSE items[1] \o Newline \o JoinItems(Tail(items))

VertexLine(x, y, z) == JoinTokens(<<VertexKeyword, x, y, z>>)

\* items a text is made of: two vertex lines, a keyword line, a vertex
\* line whose third coordinate is no number, and one with two coordinates
TextItems ==
    { VertexLine(Zero, Zero, Zero),
      VertexLine(One, Zero, Zero),
      <<"e", "n", "d", "l", "o", "o", "p">>,
      JoinTokens(<<VertexKeyword, Zero, One, <<"1", "x">> >>),
      JoinTokens(<<VertexKeyword, One, One>>) }

ItemTexts ==
    { JoinItems(items) : items \in UNION { [1..k -> TextItems] : k \in 0..MaxItems } }

FacetHeader ==
    JoinTokens(<< <<"f", "a", "c", "e", "t">>, <<"n", "o", "r", "m", "a", "l">>,
                  Zero, Zero, One >>)
    \o Newline \o Space \o Space
    \o JoinTokens(<< <<"o", "u", "t", "e", "r">>, <<"l", "o", "o", "p">> >>)
    \o Newline

FacetFooter ==
    Newline \o <<"e", "n", "d", "l", "o", "o", "p">> \o Newline
    \o <<"e", "n", "d", "f", "a", "c", "e", "t">> \o Newline

\* two facets as an STL writer lays them out, the second with signed,
\* fractional and exponent forms of its coordinates
TwoFacets ==
    FacetHeader
    \o JoinItems(<< VertexLine(Zero, Zero, Zero), VertexLine(One, Zero, Zero),
                    VertexLine(Zero, One, Zero) >>)
    \o FacetFooter \o FacetHeader
    \o JoinItems(<< VertexLine(<<"-", "1">>, <<"1", ".", "5">>, <<"1", "e", "1">>),
                    VertexLine(<<"1", "0">>, <<"+", "2", ".", "5", "0">>, <<".", "5">>),
                    VertexLine(<<"1", "5", "e", "-", "1">>, <<"2", ".">>, <<"n", "a", "n">>) >>)
    \o FacetFooter

\* a vertex keyword where a coordinate is expected, then three vertex lines
KeywordAsCoordinate ==
    JoinItems(<< JoinTokens(<<VertexKeyword, One>>), VertexLine(Zero, Zero, Zero),
                 VertexLine(One, Zero, Zero), VertexLine(Zero, One, Zero),
                 VertexLine(Zero, Zero, One) >>)

\* a facet whose coordinates are infinities, NaNs, hexadecimal numbers and
\* decimals beyond the range of a double
SpecialForms ==
    JoinItems(<< VertexLine(<<"i", "n", "f">>, <<"-", "I", "N", "F">>,
                            <<"0", "x", "1", "p", "3">>),
                 VertexLine(<<"n", "a", "n", "(", "1", ")">>, <<"1", "e", "4", "0", "0">>,
                            <<"-", "1", "e", "-", "4", "0", "0">>),
                 VertexLine(<<"-", "n", "a", "n">>, <<"0", "X", ".", "8">>,
                            <<"-", "I", "n", "f", "i", "n", "i", "t", "y">>) >>)

\* three vertices whose tokens are separated by form feeds, vertical tabs
\* and carriage returns
OtherSpaces ==
    VertexKeyword \o <<"\f">> \o One \o <<VerticalTab>> \o Zero \o <<"\r">> \o Zero
    \o <<"\f", VerticalTab>> \o VertexLine(Zero, One, Zero)
    \o <<VerticalTab>> \o VertexLine(Zero, Zero, One) \o <<"\f">>

\* an infinity followed by one more letter, then three vertex lines
MalformedInfinity ==
    JoinItems(<< VertexLine(Zero, <<"i", "n", "f", "x">>, Zero),
                 VertexLine(Zero, Zero, Zero), VertexLine(One, Zero, Zero),
                 VertexLine(Zero, One, Zero) >>)

\* a facet whose coordinates have the largest mantissas a record holds
LargestMantissas ==
    JoinItems(<< VertexLine(<<"2", "1", "4", "7", "4", "8", "3", "6", "4", "7">>,
                            <<"-", "2", "1", "4", "7", "4", "8", "3", "6", "4", "6">>,
                            Zero),
                 VertexLine(Zero, <<"2", "1", "4", "7", "4", "8", "3", "6", "4", ".", "7">>,
                            Zero),
                 VertexLine(Zero, Zero,
                            <<"2", "1", "4", "7", "4", "8", "3", "6", "4", "5">>) >>)

FixedTexts ==
    { TwoFacets, KeywordAsCoordinate, <<" ", "\n">>, <<"\t">> \o TwoFacets,
      SpecialForms, OtherSpaces, MalformedInfinity, LargestMantissas }

StlTexts == ItemTexts \cup FixedTexts

\* ------------------------------------------------ stl_io.cpp, the writer
DigitChar(d) ==
    CASE d = 0 -> "0" [] d = 1 -> "1" [] d = 2 -> "2" [] d = 3 -> "3"
      [] d = 4 -> "4" [] d = 5 -> "5" [] d = 6 -> "6" [] d = 7 -> "7"
      [] d = 8 -> "8" [] d = 9 -> "9"

\* the decimal digits of n >= 0, most significant first
RECURSIVE DigitsOf(_)
DigitsOf(n) ==
    IF n < 10 THEN <<DigitChar(n)>>
    ELSE Append(DigitsOf(n \div 10), DigitChar(n % 10))

RECURSIVE Zeros(_)
Zeros(n) == IF n <= 0 THEN <<>> ELSE <<"0">> \o Zeros(n - 1)

\* the stream's default precision
kPrecision == 6

\* whether a decimal half way between two neighbours of kPrecision digits,
\* the lower one q, is written as the upper one: the digits are those of the
\* double, so the side the double lies on decides, and the even neighbour
\* when the double is the decimal itself
TieRoundsUp(q, abs, e) ==
    \E side \in {NearestDouble(abs, e)} :
        side = "above" \/ (side = "exact" /\ q % 2 = 1)

\* q with the remainder r of the cut digits rounded in, and the decimal
\* exponent of the leading digit, one more when the rounding carries
RoundedIn(q, r, half, abs, e, exp10) ==
    IF r > half \/ (r = half /\ TieRoundsUp(q, abs, e))
    THEN [m |-> q + 1, exp10 |-> IF q + 1 = Pow10(kPrecision) THEN exp10 + 1 ELSE exp10]
    ELSE [m |-> q, exp10 |-> exp10]

\* abs * 10^(-e) with len digits, rounded to kPrecision significant digits
SignificantDigits(abs, e, len) ==
    IF len <= kPrecision THEN [m |-> abs, exp10 |-> len - 1 - e]
    ELSE RoundedIn(abs \div Pow10(len - kPrecision), abs % Pow10(len - kPrecision),
                   5 * Pow10(len - kPrecision - 1), abs, e, len - 1 - e)

\* the style %g picks: scientific for exp10 < -4 or exp10 >= kPrecision,
\* fixed otherwise; trailing zeros are not written
Layout(sign, digits, n, exp10, absExp) ==
    IF exp10 < -4 \/ exp10 >= kPrecision
    THEN sign \o <<digits[1]>>
         \o (IF n > 1 THEN <<".">> \o SubSeq(digits, 2, n) ELSE <<>>)
         \o <<"e", IF exp10 < 0 THEN "-" ELSE "+">>
         \o (IF absExp < 10 THEN <<"0">> ELSE <<>>) \o DigitsOf(absExp)
    ELSE IF exp10 < 0
    THEN sign \o <<"0", ".">> \o Zeros(0 - exp10 - 1) \o digits
    ELSE IF n <= exp10 + 1
    THEN sign \o digits \o Zeros(exp10 + 1 - n)
    ELSE sign \o SubSeq(digits, 1, exp10 + 1) \o <<".">> \o SubSeq(digits, exp10 + 2, n)

FormatDigits(sign, digits, exp10) ==
    Layout(sign, digits, Len(digits), exp10, IF exp10 < 0 THEN 0 - exp10 ELSE exp10)

FormatRounded(sign, s) == FormatDigits(sign, DigitsOf(Normalize(s.m, 0).m), s.exp10)

FormatFinite(sign, abs, e) ==
    FormatRounded(sign, SignificantDigits(abs, e, NumDigits(abs)))

\* --- the digits of a double carried exactly
\* the decimal digit of weight 10^p of x
BigDigit(x, p) ==
    IF p \div 4 + 1 > Len(x) THEN 0 ELSE (x[p \div 4 + 1] \div Pow10(p % 4)) % 10

BigNumDigits(x) == 4 * (Len(x) - 1) + NumDigits(x[Len(x)])

\* the number the `count` digits from weight 10^p up make
RECURSIVE BigDigitsValue(_, _, _)
BigDigitsValue(x, p, count) ==
    IF count = 0 THEN 0
    ELSE BigDigit(x, p) + 10 * BigDigitsValue(x, p + 1, count - 1)

\* the leading kPrecision digits q of x rounded by the digits cut off, to
\* nearest and to the even neighbour half way; len is the number of digits
ExactRoundedIn(x, len, q, exp10) ==
    IF \/ BigDigit(x, len - kPrecision - 1) > 5
       \/ /\ BigDigit(x, len - kPrecision - 1) = 5
          /\ \/ q % 2 = 1
             \/ \E p \in 0..(len - kPrecision - 2) : BigDigit(x, p) # 0
    THEN [m |-> q + 1, exp10 |-> IF q + 1 = Pow10(kPrecision) THEN exp10 + 1 ELSE exp10]
    ELSE [m |-> q, exp10 |-> exp10]

ExactSignificantDigits(x, e, len) ==
    IF len <= kPrecision THEN [m |-> BigDigitsValue(x, 0, len), exp10 |-> len - 1 - e]
    ELSE ExactRoundedIn(x, len, BigDigitsValue(x, len - kPrecision, kPrecision), len - 1 - e)

FormatDecimal(sign, x, e) ==
    FormatRounded(sign, ExactSignificantDigits(x, e, BigNumDigits(x)))

\* x * 2^e2 in decimal: a whole number, or x * 5^(-e2) * 10^e2
FormatExact(sign, x, e2) ==
    FormatDecimal(sign,
                  BigProduct(x, BigPower(IF e2 >= 0 THEN 2 ELSE 5,
                                         IF e2 >= 0 THEN e2 ELSE 0 - e2)),
                  IF e2 >= 0 THEN 0 ELSE 0 - e2)

\* the %g conversion with precision 6
FormatValue(v) ==
    IF v.m = NaN THEN <<"n", "a", "n">>
    ELSE IF v.m = NegNaN THEN <<"-", "n", "a", "n">>
    ELSE IF v.m = Infinity THEN <<"i", "n", "f">>
    ELSE IF v.m = NegInfinity THEN <<"-", "i", "n", "f">>
    ELSE IF v.m = NegZero THEN <<"-", "0">>
    ELSE IF v.m = 0 THEN <<"0">>
    ELSE IF IsExact(v) THEN FormatExact(IF v.m < 0 THEN <<"-">> ELSE <<>>, v.big, v.e2)
    ELSE FormatFinite(IF v.m < 0 THEN <<"-">> ELSE <<>>,
                      IF v.m < 0 THEN 0 - v.m ELSE v.m, v.e)

\* a decimal below the normal doubles, whose double has fewer binary digits
\* than kSignificandBits
InSubnormalRange(v) ==
    /\ ~IsExact(v) /\ ~IsNaN(v) /\ ~IsInfinite(v) /\ ~IsZero(v)
    /\ NumDigits(IF v.m < 0 THEN 0 - v.m ELSE v.m) - 1 - v.e < -307

\* `out << value` for a double
FormatDouble(v) == FormatValue(IF InSubnormalRange(v) THEN Exact(v) ELSE v)

Solid == <<"s", "o", "l", "i", "d">>
EndSolid == <<"e", "n", "d">> \o Solid
Facet == <<"f", "a", "c", "e", "t">>
Normal == <<"n", "o", "r", "m", "a", "l">>
OuterLoop == <<"o", "u", "t", "e", "r", " ", "l", "o", "o", "p">>
EndLoop == <<"e", "n", "d", "l", "o", "o", "p">>
EndFacet == <<"e", "n", "d">> \o Facet

\* `out << x << ' ' << y << ' ' << z`
Spaced(written) == written[1] \o Space \o written[2] \o Space \o written[3]

FormatThree(x, y, z) == Spaced([k \in 1..3 |-> FormatDouble(<<x, y, z>>[k])])

\* `out << "      vertex " << p[0] << ' ' << p[1] << ' ' << p[2] << '\n'`
WriteVertex(p) ==
    <<" ", " ", " ", " ", " ", " ">> \o VertexKeyword \o Space
    \o FormatThree(p[1], p[2], p[3]) \o Newline

\* (variant: the vertices are written c, b, a)
TriangleVertices_Reversed(t) == <<t.c, t.b, t.a>>

\* the order in which write_triangle_in_ascii_stl writes the vertices
TriangleVertices(t) == <<t.a, t.b, t.c>>

\* the six products of the cross product, in source order, and for each the
\* operand its instruction keeps in the destination register
Products == 1..6

Destinations == [Products -> {1, 2}]

\* the operands of the six products of the cross product of the edge
\* vectors v1 = b - a and v2 = c - a, in source order
CrossOperands(v1, v2) ==
    << <<v1[2], v2[3]>>, <<v1[3], v2[2]>>, <<v1[3], v2[1]>>,
       <<v1[1], v2[3]>>, <<v1[1], v2[2]>>, <<v1[2], v2[1]>> >>

\* the edge vectors b - a and c - a
EdgeVectors(t) == [j \in 1..2 |-> [k \in 1..3 |-> DoubleSub(<<t.b, t.c>>[j][k], t.a[k])]]

EdgeOperands(v) == CrossOperands(v[1], v[2])

ProductOperands(t) == EdgeOperands(EdgeVectors(t))

\* the three differences of the six products
Differences(product) ==
    [k \in 1..3 |-> DoubleSub(product[2 * k - 1], product[2 * k])]

\* nx, ny, nz
CrossProduct(ops, dst) ==
    Differences([k \in Products |-> DoubleMul(ops[k][1], ops[k][2], dst[k])])

\* the products in which the destination shows: both operands are NaN
DependentProducts(ops) == { k \in Products : IsNaN(ops[k][1]) /\ IsNaN(ops[k][2]) }

\* the destinations with the second operand for the products of `second`
SecondFor(second) == [k \in Products |-> IF k \in second THEN 2 ELSE 1]

\* the normal the builds can give for the operands: one for every choice of
\* destinations of the products in which it shows
Normals(ops) ==
    [dependent |-> DependentProducts(ops),
     normal |-> [second \in SUBSET DependentProducts(ops) |->
                    CrossProduct(ops, SecondFor(second))]]

\* --- what is written
D0 == Dec(0, 0)
D1 == Dec(1, 0)

\* a coordinate whose seventh digit is a five with no digit behind it; the
\* double next to the first lies below it, the one next to the second above
Tie1 == Dec(1234575, 6)
Tie2 == Dec(1234565, 3)

\* triangles handed to the writer: the two of the round-trip test, one with
\* seven-digit, fractional and small coordinates, a degenerate one with
\* coordinates that end in a five at the seventh digit, and one with
\* infinities whose edge vectors hold NaNs of both signs
WrittenTriangles ==
    { Triangle(<<D0, D0, D0>>, <<D1, D0, D0>>, <<D0, D1, D0>>),
      Triangle(<<D1, D0, D0>>, <<D1, D1, D0>>, <<D0, D1, D0>>),
      Triangle(<<Dec(1234567, 0), D0, D0>>, <<D0, Dec(25, 1), D0>>,
               <<D0, D0, Dec(-1, 5)>>),
      Triangle(<<D0, D0, D0>>, <<Tie1, D0, D0>>, <<Tie2, D0, D0>>),
      Triangle(<<D0, D0, D0>>, <<Dec(-15, 1), Special(NaN), D0>>,
               <<Special(Infinity), Special(NegInfinity), Special(NegNaN)>>) }

\* the normals of the triangles handed to the writer, worked out once
WrittenNormals == [t \in WrittenTriangles |-> Normals(ProductOperands(t))]

NormalsOf(t) ==
    IF t \in WrittenTriangles THEN WrittenNormals[t] ELSE Normals(ProductOperands(t))

NormalFor(normals, dst) == normals.normal[{ k \in normals.dependent : dst[k] = 2 }]

\* nx, ny, nz as the build with the destinations dst computes them
FacetNormal(t, dst) == NormalFor(NormalsOf(t), dst)

\* the lines of a facet, its normal and vertex lines given
WriteFacet(normal, vertex) ==
    <<" ", " ">> \o Facet \o Space \o Normal \o Space \o normal \o Newline
    \o <<" ", " ", " ", " ">> \o OuterLoop \o Newline
    \o vertex[1] \o vertex[2] \o vertex[3]
    \o <<" ", " ", " ", " ">> \o EndLoop \o Newline
    \o <<" ", " ">> \o EndFacet \o Newline

WriteNormal(n) == FormatThree(n[1], n[2], n[3])

write_triangle_in_ascii_stl(t, dst) ==
    WriteFacet(WriteNormal(FacetNormal(t, dst)),
               [k \in 1..3 |-> WriteVertex(TriangleVertices(t)[k])])

RECURSIVE WriteAll(_, _)
WriteAll(ts, dst) ==
    IF ts = <<>> THEN <<>>
    ELSE write_triangle_in_ascii_stl(Head(ts), dst) \o WriteAll(Tail(ts), dst)

write_ascii_stl(solid_name, ts, dst) ==
    Solid \o Space \o solid_name \o Newline
    \o WriteAll(ts, dst)
    \o EndSolid \o Space \o solid_name \o Newline

\* the products in which the destination shows: both operands are NaN for
\* some triangle of the list
BuildDependentProducts(ts) ==
    UNION { NormalsOf(ts[n]).dependent : n \in 1..Len(ts) }

\* the builds that can differ on a list: every choice of destinations for
\* the products in which it shows, the first operand for the others
Builds(ts) == { SecondFor(second) : second \in SUBSET BuildDependentProducts(ts) }

\* --- the lists that are written
\* longest list handed to the writer
MaxWritten == 2

WrittenLists == UNION { [1..k -> WrittenTriangles] : k \in 0..MaxWritten }

\* solid names: the empty name, two words, the word `vertex`, and a whole
\* vertex line
SolidNames == { <<>>, <<"a", " ", "b">>, VertexKeyword, VertexLine(One, One, One) }

\* largest of the small chunk sizes
MaxChunk == 3

\* sizeof(chunk) is 65536, larger than every text here; builds with a chunk
\* of 1 .. MaxChunk characters read the same texts in several pieces
ChunkSizes == (1..MaxChunk) \cup {65536}

\* either a text to parse, or a list and a name to write and parse back
StlInit ==
    /\ MeshUnused
    /\ GeomIdle
    /\ PolyIdle
    /\ s_chunk \in ChunkSizes
    /\ ParserStart
    /\ \/ /\ s_pc = "reading"
          /\ s_text \in StlTexts
          /\ w_triangles = <<>> /\ w_name = <<>>
       \/ /\ s_pc = "writing"
          /\ s_text = <<>>
          /\ w_triangles \in WrittenLists
          /\ w_name \in SolidNames

\* write_ascii_stl into a string stream, which parse_ascii_stl then reads
StlWrite ==
    /\ s_pc = "writing"
    /\ s_text' \in { write_ascii_stl(w_name, w_triangles, dst) : dst \in Builds(w_triangles) }
    /\ s_pc' = "written"
    /\ UNCHANGED << s_chunk, s_pos, buffer, triangle_vertices, coord_buffer,
                    remaining_coords, parsed, w_triangles, w_name >>
    /\ UNCHANGED << mesh_vars, reorient_vars, void_vars, flips_returned, geom_vars, poly_vars >>

\* the stream is being read: a given text, or the one just written
Reading == s_pc \in {"reading", "written"}

Min(a, b) == IF a <= b THEN a ELSE b

\* one pass of the read loop: a chunk is read and consume_buffer(false) runs
StlReadChunk ==
    /\ Reading
    /\ s_pos < Len(s_text)
    /\ LET gcount == Min(s_chunk, Len(s_text) - s_pos)
           chunk == SubSeq(s_text, s_pos + 1, s_pos + gcount)
       IN  \* the parser state after consume_buffer(false), computed once
           \E st \in {consume_buffer([ParserState EXCEPT !.buffer = @ \o chunk], FALSE)} :
              /\ s_pos' = s_pos + gcount
              /\ buffer' = st.buffer
              /\ triangle_vertices' = st.triangle_vertices
              /\ coord_buffer' = st.coord_buffer
              /\ remaining_coords' = st.remaining_coords
              /\ parsed' = st.parsed
    /\ UNCHANGED << s_pc, s_text, s_chunk, w_triangles, w_name >>
    /\ UNCHANGED << mesh_vars, reorient_vars, void_vars, flips_returned, geom_vars, poly_vars >>

\* the read returns no character: consume_buffer(true), then the return
StlFlush ==
    /\ Reading
    /\ s_pos = Len(s_text)
    /\ \E st \in {consume_buffer(ParserState, TRUE)} :
          /\ buffer' = st.buffer
          /\ triangle_vertices' = st.triangle_vertices
          /\ coord_buffer' = st.coord_buffer
          /\ remaining_coords' = st.remaining_coords
          /\ parsed' = st.parsed
    /\ s_pc' = IF s_pc = "written" THEN "read_back" ELSE "returned"
    /\ UNCHANGED << s_text, s_chunk, s_pos, w_triangles, w_name >>
    /\ UNCHANGED << mesh_vars, reorient_vars, void_vars, flips_returned, geom_vars, poly_vars >>

StlNext ==
    \/ StlWrite
    \/ StlReadChunk
    \/ StlFlush

StlSpec == StlInit /\ [][StlNext]_vars

\* --------------------------------------------------- problem_2/polyline.cpp
\* Vertex indices are the non-negative int32 values; kUnconnectedVertex is
\* the one negative value the code uses.
kUnconnectedVertex == -1

\* degree_of_vertices and degree_1_count are uint8_t
CounterModulus == 256

\* number of positions of the buffer that hold v
Count(buf, v) == Cardinality({ k \in 1..Len(buf) : buf[k] = v })

\* `max_vertex`: the largest entry, at least 0
max_vertex(buf) ==
    LET entries == {0} \cup { buf[k] : k \in 1..Len(buf) }
    IN  CHOOSE v \in entries : \A w \in entries : v >= w

\* (variant: counters that do not wrap)
degree_of_vertices_Unbounded(buf, v) == Count(buf, v)

\* degree_of_vertices[v] after the counting loop
degree_of_vertices(buf, v) == Count(buf, v) % CounterModulus

\* degree_1_count after the validation loop, when no degree exceeded 2
degree_1_count(buf) ==
    Cardinality({ v \in 0..max_vertex(buf) : degree_of_vertices(buf, v) = 1 })
        % CounterModulus

\* the checks of the constructor for verbose segments that throw
ValidationThrows(buf) ==
    \/ Len(buf) % 2 # 0
    \/ \E v \in 0..max_vertex(buf) : degree_of_vertices(buf, v) > 2
    \/ degree_1_count(buf) \notin {0, 2}

\* the positions of the segment buffer that hold the vertex, and for a
\* position the other entry of its segment; the loop runs over
\* segments.size() / 2 segments, so the last entry of an odd buffer is not read
PositionsOf(segments, vertex) ==
    { k \in 1..(2 * (Len(segments) \div 2)) : segments[k] = vertex }

NeighborAt(segments, k) == IF k % 2 = 1 THEN segments[k + 1] ELSE segments[k - 1]

\* the vertices for which assign_neighbor stores outside the array
StoredOutside(segments, num_vertices) ==
    { segments[k] : k \in 1..(2 * (Len(segments) \div 2)) } \ (0..(num_vertices - 1))

\* An entry of vertex_connectivity after the loop over the segments: the
\* `assign_neighbor` lambda is called once per position in buffer order; the
\* first call for a vertex fills .first, which holds -1, and every other call
\* overwrites .second.
AfterStores(segments, vertex) ==
    LET at == PositionsOf(segments, vertex)
    IN  IF at = {} THEN <<kUnconnectedVertex, kUnconnectedVertex>>
        ELSE LET first == CHOOSE k \in at : \A m \in at : k <= m
                 last == CHOOSE k \in at : \A m \in at : k >= m
             IN  IF first = last
                 THEN <<NeighborAt(segments, first), kUnconnectedVertex>>
                 ELSE <<NeighborAt(segments, first), NeighborAt(segments, last)>>

\* the array after the loop over the segments; its entries start as {-1, -1}
vertex_connectivity(segments, num_vertices) ==
    [v \in 0..(num_vertices - 1) |-> AfterStores(segments, v)]

\* the set of the entries of `endpoints`: the loop runs over the array only
EndpointSet(conn, num_vertices) ==
    { v \in 0..(num_vertices - 1) :
        conn[v][1] # kUnconnectedVertex /\ conn[v][2] = kUnconnectedVertex }

Smallest(S) == CHOOSE v \in S : \A w \in S : v <= w

\* (variant: the walk of an open polyline starts at its larger endpoint)
StartOfOpen_Larger(endpoint_0, endpoint_1) ==
    IF endpoint_0 >= endpoint_1 THEN endpoint_0 ELSE endpoint_1

\* `std::min(endpoints[0], endpoints[1])`
StartOfOpen(endpoint_0, endpoint_1) ==
    IF endpoint_1 < endpoint_0 THEN endpoint_1 ELSE endpoint_0

\* the `next_neighbor` lambda, on the entry of the vertex
next_neighbor(entry, already_visited) ==
    LET v1 == entry[1]
        v2 == entry[2]
    IN  IF v1 # kUnconnectedVertex /\ v1 # already_visited THEN v1
        ELSE IF v2 # kUnconnectedVertex /\ v2 # already_visited THEN v2
        ELSE kUnconnectedVertex

\* What a call gives.  "ok": it returns `ordering`.  "threw": it throws
\* invalid_argument.  "crashed": it ends in a signal.  "endless": it never
\* leaves the loop of the walk, compressed_ordering growing until its
\* allocation fails.  "undefined": it uses memory outside
\* `endpoints` or `vertex_connectivity`.  Such memory holds whatever the
\* caller and the allocator left there, any int32 values or none that may be
\* read, so from the first use on nothing is known of the call: it may end in
\* a signal, never return, or return any vector.  `ordering` is then what
\* compressed_ordering holds when the first element outside the arrays is
\* read, as far as the elements inside them tell.
Outcome(status, ordering) == [status |-> status, ordering |-> ordering]

Crashed == Outcome("crashed", <<>>)

Threw == Outcome("threw", <<>>)

Undefined(ordering) == Outcome("undefined", ordering)

\* One pass of the `while (true)` loop of the walk.  `seen` holds the pairs
\* <<previous_vertex, current_vertex>> the walk has been at: being at one of
\* them again, the walk repeats itself and never ends.
RECURSIVE WalkFrom(_, _, _)
WalkStep(conn, call, walk, next_vertex) ==
    IF next_vertex = kUnconnectedVertex
    THEN Outcome("ok", walk.ordering)
    ELSE IF call.is_closed /\ next_vertex = call.starting_vertex
    THEN Outcome("ok", Append(walk.ordering, next_vertex))
    ELSE IF <<walk.previous_vertex, walk.current_vertex>> \in walk.seen
    THEN Outcome("endless", walk.ordering)
    ELSE WalkFrom(conn, call,
                  [previous_vertex |-> walk.current_vertex,
                   current_vertex |-> next_vertex,
                   ordering |-> Append(walk.ordering, next_vertex),
                   seen |-> walk.seen \cup {<<walk.previous_vertex, walk.current_vertex>>}])

\* the pass from the call of next_neighbor on: the lambda reads
\* vertex_connectivity[static_cast<size_t>(current_vertex)], an element of
\* the array only for the vertices 0 .. num_vertices - 1
WalkFrom(conn, call, walk) ==
    IF walk.current_vertex \notin DOMAIN conn THEN Undefined(walk.ordering)
    ELSE WalkStep(conn, call, walk,
                  next_neighbor(conn[walk.current_vertex], walk.previous_vertex))

\* the walk from `vertex_connectivity[starting_vertex].first` on
WalkFirst(conn, call) ==
    WalkFrom(conn, call,
             [previous_vertex |-> call.starting_vertex,
              current_vertex |-> conn[call.starting_vertex][1],
              ordering |-> <<call.starting_vertex, conn[call.starting_vertex][1]>>,
              seen |-> {}])

\* `starting_vertex` where `endpoints` has no or at least two entries: the
\* smallest participating vertex (0 when there is none), or the smaller of
\* endpoints[0] and endpoints[1]
starting_vertex(conn, num_vertices) ==
    LET ends == EndpointSet(conn, num_vertices)
        participating == { v \in 0..(num_vertices - 1) : conn[v][1] # kUnconnectedVertex }
    IN  IF ends = {}
        THEN IF participating = {} THEN 0 ELSE Smallest(participating)
        ELSE StartOfOpen(Smallest(ends), Smallest(ends \ {Smallest(ends)}))

\* The function from the search for the endpoints on.  With one entry in
\* `endpoints`, endpoints[1] is read behind the vector's only element.
WalkConnectivity(conn, num_vertices) ==
    IF Cardinality(EndpointSet(conn, num_vertices)) = 1 THEN Undefined(<<>>)
    ELSE WalkFirst(conn, [is_closed |-> EndpointSet(conn, num_vertices) = {},
                          starting_vertex |-> starting_vertex(conn, num_vertices)])

\* the call after assign_neighbor has stored outside the array
AfterStoresOutside(walked) == Undefined(walked.ordering)

\* Polyline::GetCompressedVertexOrdering.  An array of no entries has a null
\* data pointer: its first use, a store of the loop over the segments or the
\* read of vertex_connectivity[0].first, ends the process.
GetCompressedVertexOrdering(segments, num_vertices) ==
    IF num_vertices = 0 THEN Crashed
    ELSE IF StoredOutside(segments, num_vertices) # {}
    THEN AfterStoresOutside(WalkConnectivity(vertex_connectivity(segments, num_vertices),
                                             num_vertices))
    ELSE WalkConnectivity(vertex_connectivity(segments, num_vertices), num_vertices)

\* Polyline::IsPolygon on a compressed ordering
IsPolygon(compressed) ==
    Len(compressed) >= 2 /\ compressed[1] = compressed[Len(compressed)]

TypeOf(compressed) == IF IsPolygon(compressed) THEN "kClosed" ELSE "kOpen"

\* the constructor: what it throws or stores
ConstructPolyline(rep, buf) ==
    IF buf = <<>> THEN Threw
    ELSE IF rep = "kVerboseSegments"
    THEN IF ValidationThrows(buf) THEN Threw
         ELSE GetCompressedVertexOrdering(buf, max_vertex(buf) + 1)
    ELSE IF rep = "kCompressedVertexOrdering"
    THEN Outcome("ok", buf)
    ELSE Threw

\* --- the buffers
\* largest vertex index of a freely drawn buffer
MaxPolyVertex == 3

\* every buffer of at most 2 * MaxSegments entries, odd lengths included
ShortBuffers ==
    UNION { [1..n -> 0..MaxPolyVertex] : n \in 0..(2 * MaxSegments) }

\* n copies of the buffer
Repeated(buf, n) == [k \in 1..(n * Len(buf)) |-> buf[((k - 1) % Len(buf)) + 1]]

\* the segments (0,1), (2,3), ... : n segments without a common vertex
DisjointSegments(n) == [k \in 1..(2 * n) |-> k - 1]

\* buffers of the tests, two polygons, a polygon beside a chain, and buffers
\* long enough for the 8-bit counters to wrap
FixedBuffers ==
    { <<0, 1, 1, 2, 2, 3, 3, 0>>, <<3, 0, 2, 1, 0, 1, 3, 2>>,
      <<3, 4, 0, 1, 2, 1, 3, 2>>, <<7, 9, 3, 1, 5, 3, 7, 5>>,
      <<0, 2, 2, 4, 4, 0>>, <<4, 0, 2, 0, 4, 2>>,
      <<0, 1, 1, 2, 2, 0, 3, 4, 4, 5, 5, 3>>,
      <<0, 1, 2, 3, 3, 4, 4, 2>>,
      <<0, 1, 0, 1, 2, 3, 3, 4, 4, 2>>,
      Repeated(<<0, 1>>, 128), Repeated(<<0, 1>>, 256), Repeated(<<0, 1>>, 257),
      Repeated(<<0, 1>>, 258), Repeated(<<0, 1>>, 259),
      DisjointSegments(127), DisjointSegments(128), DisjointSegments(129),
      <<0, 1>> \o Repeated(<<1, 2>>, 256) }

\* compressed orderings handed to the constructor as they are
CompressedBuffers == UNION { [1..n -> 0..MaxPolyVertex] : n \in 0..4 }

\* a value that is no enumerator of PolylineRepresentation, cast to it
OtherRepresentations == {"static_cast<PolylineRepresentation>(2)"}

\* buffers handed to the constructor with such a value
CastBuffers == { <<>>, <<0, 1>>, <<0, 1, 1, 2>>, <<0, 1, 1, 0>>, <<2, 0, 1>> }

\* the direct calls of the static function, as <<segments, num_vertices>>:
\* a chain, a polygon, a vertex with three neighbours and a loop behind a
\* chain that the walk never leaves, with an array of no,
\* too few, enough and too many entries
DirectCalls ==
    { <<<<0, 1, 1, 2>>, 0>>, <<<<0, 1, 1, 2>>, 1>>, <<<<0, 1, 1, 2>>, 2>>,
      <<<<0, 1, 1, 2>>, 3>>, <<<<0, 1, 1, 2>>, 4>>, <<<<2, 1, 0, 1>>, 3>>,
      <<<<0, 1, 1, 1>>, 1>>, <<<<0, 1, 1, 1>>, 2>>,
      <<<<0, 1, 1, 2, 2, 0>>, 3>>, <<<<0, 1, 1, 2, 2, 0>>, 2>>,
      <<<<2, 0, 1, 2, 0, 1>>, 3>>, <<<<0, 1, 0, 2, 0, 3>>, 4>>,
      <<<<0, 1>>, 1>>, <<<<0, 1>>, 2>>, <<<<1, 2>>, 1>>, <<<<1, 1>>, 1>>,
      <<<<0, 1, 2>>, 3>>,
      <<<<1, 2, 0, 1, 1, 3, 2, 3, 4, 5>>, 6>>,
      <<<<>>, 0>>, <<<<>>, 1>>, <<<<>>, 4>>, <<<<3>>, 2>> }

PolyInit ==
    /\ MeshUnused
    /\ GeomIdle
    /\ StlIdle
    /\ \/ /\ p_pc = "start"
          /\ representation = "kVerboseSegments"
          /\ data \in ShortBuffers \cup FixedBuffers
          /\ p_num_vertices = -1
       \/ /\ p_pc = "start"
          /\ representation = "kCompressedVertexOrdering"
          /\ data \in CompressedBuffers
          /\ p_num_vertices = -1
       \/ /\ p_pc = "start"
          /\ representation \in OtherRepresentations
          /\ data \in CastBuffers
          /\ p_num_vertices = -1
       \/ /\ p_pc = "call"
          /\ representation = "none"
          /\ \E call \in DirectCalls :
                /\ data = call[1]
                /\ p_num_vertices = call[2]
    /\ PolyResultsUnset

PolyUnchanged ==
    UNCHANGED << mesh_vars, reorient_vars, void_vars, flips_returned, geom_vars, stl_vars >>

\* Polyline::Polyline
PolyConstruct ==
    /\ p_pc = "start"
    /\ \E r \in {ConstructPolyline(representation, data)} :
            /\ p_pc' = IF r.status = "ok" THEN "built" ELSE r.status
            /\ compressed_segments_' = IF r.status = "ok" THEN r.ordering ELSE <<>>
            /\ type_' = IF r.status = "ok" THEN TypeOf(r.ordering) ELSE "unset"
            /\ p_walked' = r.ordering
    /\ UNCHANGED << representation, data, p_num_vertices, p_returned,
                    p_is_polygon, p_get_type >>
    /\ PolyUnchanged

\* Polyline::GetCompressedVertexOrdering, called as the public static
\* function it is
PolyGetCompressedVertexOrdering ==
    /\ p_pc = "call"
    /\ \E r \in {GetCompressedVertexOrdering(data, p_num_vertices)} :
            /\ p_pc' = IF r.status = "ok" THEN "returned" ELSE r.status
            /\ p_returned' = IF r.status = "ok" THEN r.ordering ELSE <<>>
            /\ p_walked' = r.ordering
    /\ UNCHANGED << representation, data, p_num_vertices, compressed_segments_, type_,
                    p_is_polygon, p_get_type >>
    /\ PolyUnchanged

\* Polyline::IsPolygon
PolyIsPolygon ==
    /\ p_pc = "built"
    /\ p_is_polygon' = IsPolygon(compressed_segments_)
    /\ UNCHANGED << p_pc, representation, data, p_num_vertices, p_returned,
                    compressed_segments_, type_, p_walked, p_get_type >>
    /\ PolyUnchanged

\* Polyline::GetType
PolyGetType ==
    /\ p_pc = "built"
    /\ p_get_type' = type_
    /\ UNCHANGED << p_pc, representation, data, p_num_vertices, p_returned,
                    compressed_segments_, type_, p_walked, p_is_polygon >>
    /\ PolyUnchanged

PolyNext ==
    \/ PolyConstruct
    \/ PolyGetCompressedVertexOrdering
    \/ PolyIsPolygon
    \/ PolyGetType

PolylineSpec == PolyInit /\ [][PolyNext]_vars


\* ---------------------------------------------------- vocabulary of the claims
\* the canonical edges of triangle index k, as a set
EdgeSet(k) == { TriangleEdges(triangles_[k + 1])[j] : j \in 1..3 }

\* Edges are the same edge when their endpoints are equal as the Points are
\* compared, by the value of each coordinate: -0.0 equals 0.0 and a NaN equals
\* nothing, so an edge with a NaN coordinate is an edge of its own at each
\* place it is written.
\* indices of the triangles of a list that have an edge equal to e
Incident(tris, e) ==
    { k \in 0..(Len(tris) - 1) : \E edges \in {TriangleEdges(tris[k + 1])} :
                                    \E j \in 1..3 : EdgeEquality(edges[j], e) }

AllEdges(tris) ==
    { TriangleEdges(tris[k])[j] : k \in 1..Len(tris), j \in 1..3 }

SharedEdges(k1, k2) ==
    { e \in EdgeSet(k1) : \E f \in EdgeSet(k2) : EdgeEquality(e, f) }

\* the triangles joined to some triangle of S by a chain of shared edges
RECURSIVE Reach(_)
Reach(S) ==
    LET T == S \cup { k \in 0..(NumTriangles - 1) :
                        \E j \in S : j # k /\ SharedEdges(j, k) # {} }
    IN  IF T = S THEN S ELSE Reach(T)

SeedComponent == Reach({seed})

SeedInRange == seed < NumTriangles

\* the mesh triangle k after the returned triangles replaced their originals
Replaced(k) ==
    IF \E m \in 1..Len(flipped_from) : flipped_from[m] = k
    THEN flipped_triangles[CHOOSE m \in 1..Len(flipped_from) : flipped_from[m] = k]
    ELSE triangles_[k + 1]

\* the call of reorient_inconsistent_triangles has ended, one way or the other
ReorientEnded == r_pc \in {"returned", "crashed"}

\* C1: once the returned triangles replace their originals, any two triangles
\* of the seed's component traverse each edge they share in opposite directions
C1_ComponentConsistentAfterReplacement ==
    (mesh_state = "ready" /\ r_pc = "returned" /\ SeedInRange) =>
        \A k1, k2 \in SeedComponent :
            k1 < k2 =>
                \A e \in SharedEdges(k1, k2) :
                    are_orientations_consistent(Replaced(k1), Replaced(k2), e)

\* the mesh has exactly two triangles, which share exactly one edge and
\* traverse it in the same direction
TwoTrianglesOneSharedEdgeSameDirection ==
    /\ mesh_state = "ready"
    /\ NumTriangles = 2
    /\ Cardinality(SharedEdges(0, 1)) = 1
    /\ \A e \in SharedEdges(0, 1) :
          ~are_orientations_consistent(triangles_[1], triangles_[2], e)

\* C2: on two triangles sharing one edge in the same direction, seed 0 and
\* seed 1 each return exactly the other triangle with b and c swapped
C2_TwoTrianglesFlipTheOther ==
    (TwoTrianglesOneSharedEdgeSameDirection /\ ReorientEnded /\ seed \in {0, 1}) =>
        /\ r_pc = "returned"
        /\ flipped_triangles =
              << [a |-> triangles_[2 - seed].a,
                  b |-> triangles_[2 - seed].c,
                  c |-> triangles_[2 - seed].b] >>

\* every edge of the seed triangle has one incident triangle only
SeedHasOnlyBoundaryEdges ==
    /\ mesh_state = "ready" /\ SeedInRange
    /\ \A e \in EdgeSet(seed) : Incident(triangles_, e) \subseteq {seed}

\* C3: the boundary sentinel is never used as an index (every index used lies
\* in [0, N)), and a seed with boundary edges only gives an empty result
C3_SentinelNeverUsedAsIndex ==
    /\ ~oob_access
    /\ (SeedHasOnlyBoundaryEdges /\ ReorientEnded) =>
          (r_pc = "returned" /\ flipped_triangles = <<>>)

\* C4: every returned triangle is the b/c-swapped copy of a triangle of the
\* seed's component other than the seed, no triangle is copied twice, and the
\* result has at most (component size - 1) entries
C4_OutputWithinSeedComponent ==
    (mesh_state = "ready" /\ ReorientEnded /\ SeedInRange) =>
        /\ r_pc = "returned"
        /\ \A m \in 1..Len(flipped_triangles) :
              /\ flipped_from[m] \in SeedComponent \ {seed}
              /\ flipped_triangles[m] =
                    [a |-> triangles_[flipped_from[m] + 1].a,
                     b |-> triangles_[flipped_from[m] + 1].c,
                     c |-> triangles_[flipped_from[m] + 1].b]
        /\ \A m1, m2 \in 1..Len(flipped_from) :
              flipped_from[m1] = flipped_from[m2] => m1 = m2
        /\ Len(flipped_triangles) <= Cardinality(SeedComponent) - 1


\* C5: a seed >= N gives an empty result at once: no error, nothing marked
\* visited, nothing enqueued, no container indexed
C5_SeedOutOfRangeReturnsEmpty ==
    (mesh_state = "ready" /\ r_pc # "idle" /\ seed >= NumTriangles) =>
        /\ r_pc = "returned"
        /\ flipped_triangles = <<>>
        /\ queue = <<>>
        /\ \A k \in DOMAIN visited_triangles : ~visited_triangles[k]
        /\ ~oob_access

C5_Witness ==
    /\ mesh_state = "ready" /\ NumTriangles >= 2
    /\ r_pc = "returned" /\ seed >= NumTriangles

\* C6: no call of reorient_inconsistent_triangles, find_connected_components,
\* is_connected_component_closed or identify_voids changes the triangle list
\* or the adjacency map of a constructed mesh
C6_MeshUnchangedByCalls ==
    [][mesh_state = "ready" =>
         /\ mesh_state' = "ready"
         /\ triangles_' = triangles_
         /\ edge_connectivity_' = edge_connectivity_]_vars

C6_Witness ==
    /\ mesh_state = "ready" /\ triangles_ = input
    /\ flips_returned
    /\ components_found /\ closed_arg # <<>> /\ voids_found

\* --- the constructor's contract, in terms of the input list
\* two vertices are equal as Points are compared
HasIdenticalVertices(t) ==
    PointEquality(t.a, t.b) \/ PointEquality(t.b, t.c) \/ PointEquality(t.a, t.c)

HasNaNCoordinate(t) ==
    \E d \in 1..3 : t.a[d] = NaN \/ t.b[d] = NaN \/ t.c[d] = NaN

\* The number a coordinate stands for, as <<n, t, u>> for
\* n + t * 2^53 + u * 2^600, and sums and products of such numbers with the
\* coefficients of 1, 2^53, 2^600, 2^106, 2^653 and 2^1200.  These
\* six numbers lie so far apart that a sum of small integer multiples of
\* them is zero only when every multiple is zero.
RealOf(x) ==
    IF x = Two53 THEN <<0, 1, 0>>
    ELSE IF x = ThreeTwo53 THEN <<0, 3, 0>>
    ELSE IF x = TwoTo600 THEN <<0, 0, 1>>
    ELSE IF x = TwoTo601 THEN <<0, 0, 2>>
    ELSE <<DoubleValue(x), 0, 0>>

RealSub(f, g) == [k \in 1..3 |-> f[k] - g[k]]

RealMul(f, g) ==
    << f[1] * g[1], f[1] * g[2] + f[2] * g[1], f[1] * g[3] + f[3] * g[1],
       f[2] * g[2], f[2] * g[3] + f[3] * g[2], f[3] * g[3] >>

\* c - a and b - a are parallel: one is a multiple of the other (in exact
\* arithmetic; a vertex with a NaN coordinate is on no line)
HasCollinearVertices(t) ==
    /\ ~HasNaNCoordinate(t)
    /\ LET u == [d \in 1..3 |-> RealSub(RealOf(t.b[d]), RealOf(t.a[d]))]
           v == [d \in 1..3 |-> RealSub(RealOf(t.c[d]), RealOf(t.a[d]))]
       IN  \/ \A d \in 1..3 : u[d] = <<0, 0, 0>>
           \/ \E d \in 1..3 :
                 /\ u[d] # <<0, 0, 0>>
                 /\ \A d2 \in 1..3 : RealMul(v[d2], u[d]) = RealMul(v[d], u[d2])

Degenerate(t) == HasIdenticalVertices(t) \/ HasCollinearVertices(t)

HasDegenerate(tris) == \E k \in 1..Len(tris) : Degenerate(tris[k])

\* index (0-based) of the first degenerate triangle
FirstDegenerate(tris) ==
    CHOOSE k \in 0..(Len(tris) - 1) :
        /\ Degenerate(tris[k + 1])
        /\ \A j \in 0..(k - 1) : ~Degenerate(tris[j + 1])

HasNonManifoldEdge(tris) ==
    \E e \in AllEdges(tris) : Cardinality(Incident(tris, e)) >= 3

\* triangle k is the third (or later) triangle of one of its edges
IsThirdOnSomeEdge(tris, k) ==
    \E j \in 1..3 :
        Cardinality({ m \in Incident(tris, TriangleEdges(tris[k + 1])[j]) : m < k }) >= 2

\* index of the first triangle that is the third one on some edge
FirstThirdRegistration(tris) ==
    CHOOSE k \in 0..(Len(tris) - 1) :
        /\ IsThirdOnSomeEdge(tris, k)
        /\ \A j \in 0..(k - 1) : ~IsThirdOnSomeEdge(tris, j)

PathConstructionEnded == ctor = "path" /\ mesh_state \in {"ready", "failed"}

\* What a triangle list has is the same in every state: the lists that have
\* it are listed once, element by element.
DegenerateLists == { tris : tris \in { x \in Inputs : HasDegenerate(x) } }

NonManifoldLists == { tris : tris \in { x \in Inputs : HasNonManifoldEdge(x) } }

NoMeshProduced ==
    mesh_state = "failed" /\ triangles_ = <<>> /\ edge_connectivity_ = EmptyMap

RejectedTriangles ==
    { t : t \in { x \in InputTriangles : DegenerateReasons[x] # "none" } }

TestRejects(t) == t \in RejectedTriangles

HasRejected(tris) == \E k \in 1..Len(tris) : TestRejects(tris[k])

RejectedLists == { tris : tris \in { x \in Inputs : HasRejected(x) } }

\* index (0-based) of the first triangle the check rejects
FirstRejected(tris) ==
    CHOOSE k \in 0..(Len(tris) - 1) :
        /\ TestRejects(tris[k + 1])
        /\ \A j \in 0..(k - 1) : ~TestRejects(tris[j + 1])

\* every coordinate is a small whole number (or -0.0): the differences and
\* products of the area computation are then exact
HasSmallCoordinates(t) ==
    \A v \in VertexNames : \A d \in 1..3 : t[v][d] # NaN /\ ~IsLarge(t[v][d])

\* among the triangles with small whole coordinates the check rejects exactly
\* those with two identical or three collinear vertices
SmallRejectedIffDegenerate ==
    \A t \in InputTriangles :
        HasSmallCoordinates(t) => (TestRejects(t) <=> Degenerate(t))

\* C8 as stated: a list with a triangle that has two identical or three
\* collinear vertices fails with the degenerate error, which names the index
\* of the first such triangle, and no mesh is produced
C8_Original_DegenerateInputFails ==
    (PathConstructionEnded /\ input \in DegenerateLists) =>
        /\ NoMeshProduced
        /\ error = "degenerate"
        /\ error_index = FirstDegenerate(input)

\* C8 (amended): a list fails with the degenerate error exactly when one of
\* its triangles has two equal vertices or a computed area_squared below
\* kTolerance * kTolerance; the error names the index of the first such
\* triangle and no mesh is produced.  Among the triangles with small whole
\* coordinates these are exactly the triangles with two identical or three
\* collinear vertices.
C8_RejectedByDegeneracyTestFails ==
    /\ (PathConstructionEnded /\ file = "open" /\ input \in RejectedLists) =>
           /\ NoMeshProduced
           /\ error = "degenerate"
           /\ error_index = FirstRejected(input)
    /\ (PathConstructionEnded /\ error = "degenerate") => input \in RejectedLists
    /\ SmallRejectedIffDegenerate

\* the error names the second triangle of a list whose third triangle is
\* degenerate too
C8_Witness ==
    /\ error = "degenerate" /\ error_index = 1
    /\ Len(input) = 3 /\ Degenerate(input[3]) /\ TestRejects(input[3])
    /\ HasSmallCoordinates(input[2])

\* C9 as stated: every mesh a caller holds has at least one triangle
C9_Original_EveryMeshNonEmpty ==
    mesh_state = "ready" => NumTriangles >= 1

\* C9 (amended): a mesh constructed from a path has at least one triangle,
\* a path that cannot be opened failing with the open error and an input of
\* zero triangles with the empty-mesh error; the default constructor yields
\* a mesh with an empty triangle list
C9_PathMeshNonEmpty ==
    /\ (ctor = "path" /\ mesh_state = "ready") => NumTriangles >= 1
    /\ (ctor = "path" /\ file = "open" /\ Len(input) = 0) =>
           (NoMeshProduced /\ error = "empty")
    /\ (ctor = "path" /\ file = "failed") => (NoMeshProduced /\ error = "open")
    /\ ctor = "default" => (mesh_state = "ready" /\ NumTriangles = 0)

C9_Witness ==
    ctor = "path" /\ file = "open" /\ Len(input) = 0 /\ error = "empty"

SetMin(S) == CHOOSE x \in S : \A y \in S : x <= y
SetMax(S) == CHOOSE x \in S : \A y \in S : x >= y

\* the places <<triangle index, edge number>> at which the list has an edge
EdgePlaces(tris) == (0..(Len(tris) - 1)) \X (1..3)

EdgeAt(tris, place) == TriangleEdges(tris[place[1] + 1])[place[2]]

\* the edge equals no edge, itself included: it has a NaN coordinate
EqualsNothing(e) == ~EdgeEquality(e, e)

\* The adjacency map has one key per canonical edge of the triangles; slot 0
\* of an edge holds its lowest incident triangle index, slot 1 the other one,
\* or the boundary sentinel when there is none.  (An edge that equals nothing
\* has one key for each place it is written at, with the triangle of that
\* place in slot 0 and the sentinel in slot 1.)
MapIsExact ==
    /\ \A x, y \in DOMAIN edge_connectivity_.found :
          x # y => ~EdgeEquality(edge_connectivity_.found[x].key,
                                 edge_connectivity_.found[y].key)
    /\ \A x \in DOMAIN edge_connectivity_.found :
          ~EqualsNothing(edge_connectivity_.found[x].key)
    /\ \A m \in 1..Len(edge_connectivity_.unfound) :
          EqualsNothing(edge_connectivity_.unfound[m].key)
    /\ Len(edge_connectivity_.unfound) =
          Cardinality({ place \in EdgePlaces(triangles_) :
                          EqualsNothing(EdgeAt(triangles_, place)) })
    /\ \A entry \in Entries(edge_connectivity_) :
          entry.key \in AllEdges(triangles_)
    /\ \A e \in AllEdges(triangles_) :
          \A inc \in {Incident(triangles_, e)} :
             IF EqualsNothing(e)
             THEN \A k \in 0..(NumTriangles - 1) :
                     e \in EdgeSet(k) =>
                        \E entry \in Entries(edge_connectivity_) :
                           /\ entry.key = e
                           /\ entry.value = <<k, kBoundaryTriangleIndex>>
             ELSE /\ Cardinality(inc) \in {1, 2}
                  /\ \E entry \in Entries(edge_connectivity_) :
                        /\ EdgeEquality(entry.key, e)
                        /\ entry.value[1] = SetMin(inc)
                        /\ entry.value[2] =
                              IF Cardinality(inc) = 1 THEN kBoundaryTriangleIndex
                              ELSE SetMax(inc)

Occurrences(k) ==
    { cm \in { <<c, m>> : c \in 1..Len(components), m \in 1..NumTriangles } :
        cm[2] <= Len(components[cm[1]]) /\ components[cm[1]][cm[2]] = k }

\* C11: the components returned by find_connected_components partition the
\* triangle indices: every index of [0, N) is in exactly one component,
\* exactly once, every entry is such an index and no component is empty
C11_ComponentsPartitionIndices ==
    (mesh_state = "ready" /\ components_found) =>
        /\ \A k \in 0..(NumTriangles - 1) : Cardinality(Occurrences(k)) = 1
        /\ \A c \in 1..Len(components) :
              /\ Len(components[c]) >= 1
              /\ \A m \in 1..Len(components[c]) : InRange(components[c][m])

C11_Witness ==
    /\ mesh_state = "ready" /\ components_found
    /\ Len(components) = 3
    /\ \E c \in 1..Len(components) : Len(components[c]) >= 2

\* triangles j and k share an edge that has exactly two incident triangles
Linked(j, k) ==
    /\ j # k
    /\ \E e \in SharedEdges(j, k) : Cardinality(Incident(triangles_, e)) = 2

\* the triangles joined to some triangle of S by a path of linked triangles
RECURSIVE LinkedReach(_)
LinkedReach(S) ==
    LET T == S \cup { k \in 0..(NumTriangles - 1) : \E j \in S : Linked(j, k) }
    IN  IF T = S THEN S ELSE LinkedReach(T)

\* the classes of the indices in rest under "joined by a path"
RECURSIVE ClassesOf(_)
ClassesOf(rest) ==
    IF rest = {} THEN {}
    ELSE LET k == CHOOSE k \in rest : \A j \in rest : k <= j
             S == LinkedReach({k})
         IN  {S} \cup ClassesOf(rest \ S)

\* the set of indices of the c-th returned component
ComponentSet(c) == { components[c][m] : m \in 1..Len(components[c]) }

C13_ComponentsOrderedBySeed ==
    (mesh_state = "ready" /\ components_found) =>
        /\ \A c \in 1..(Len(components) - 1) :
              components[c][1] < components[c + 1][1]
        /\ \A c \in 1..Len(components) :
              \A m \in 1..Len(components[c]) :
                  components[c][1] <= components[c][m]

C13_Witness ==
    /\ mesh_state = "ready" /\ components_found
    /\ Len(components) = 2
    /\ \E m \in 1..Len(components[1]) : components[1][m] > components[2][1]

\* every edge of every triangle of the component has an adjacency entry and
\* exactly two incident triangles
AllEdgesHaveTwoTriangles(component) ==
    \A m \in 1..Len(component) :
        \A e \in EdgeSet(component[m]) :
            /\ Contains(edge_connectivity_, e)
            /\ Cardinality(Incident(triangles_, e)) = 2

\* is_connected_component_closed has been called and has returned
ClosedCalled == mesh_state = "ready" /\ components_found /\ closed_arg # <<>>

\* C14: is_connected_component_closed returns true exactly when every edge of
\* every triangle of the component has an adjacency entry with two incident
\* triangles; a lone triangle is open and a closed cube is closed
C14_ClosedIffNoBoundaryEdge ==
    ClosedCalled =>
        /\ closed_result = AllEdgesHaveTwoTriangles(closed_arg)
        /\ NumTriangles = 1 => ~closed_result
        /\ triangles_ = Cube => closed_result

C14_Witness ==
    /\ ClosedCalled /\ closed_result
    /\ \E c \in 1..Len(components) :
          ~AllEdgesHaveTwoTriangles(components[c])

\* the padded box of the component at position j of the list passed to
\* identify_voids
PaddedBox(j) == compute_component_aabb(void_input[j], 1)

\* positions of the list whose padded box lies in the padded box of a
\* component at another position
ContainedPositions ==
    { k \in 1..Len(void_input) :
        \E j \in 1..Len(void_input) :
            j # k /\ aabb_contains(PaddedBox(j), PaddedBox(k), 1) }

\* C15: identify_voids returns, in input order, exactly the components whose
\* padded box is contained in the padded box of another component of the
\* list; fewer than two components give an empty list
C15_VoidsAreContainedComponents ==
    (mesh_state = "ready" /\ voids_found) =>
        /\ voids = SubList(void_input, ContainedPositions, 1)
        /\ Len(void_input) < 2 => voids = <<>>

C15_Witness ==
    /\ mesh_state = "ready" /\ voids_found
    /\ Len(void_input) = 3
    /\ Len(voids) = 1 /\ voids[1] = void_input[2]

\* --- export_voids_to_stl, in terms of the mesh geometry
\* the classes of triangles joined by edges with two incident triangles
Classes == ClassesOf(0..(NumTriangles - 1))

\* every edge of every triangle of the class has two incident triangles
ClosedClass(S) ==
    \A k \in S : \A e \in EdgeSet(k) : Cardinality(Incident(triangles_, e)) = 2

\* the coordinates on axis d of the vertices of the triangles of S
Coordinates(S, d) ==
    UNION { { triangles_[k + 1].a[d], triangles_[k + 1].b[d], triangles_[k + 1].c[d] } :
              k \in S }

\* the box of S lies inside the box of T with room on all six faces (with
\* whole-number coordinates that is containment of the padded boxes under a
\* tolerance of 1e-9)
StrictlyInside(S, T) ==
    \A d \in 1..3 :
        /\ SetMin(Coordinates(T, d)) < SetMin(Coordinates(S, d))
        /\ SetMax(Coordinates(S, d)) < SetMax(Coordinates(T, d))

\* the closed classes that lie inside another closed class
VoidClasses ==
    { S \in Classes :
        /\ ClosedClass(S)
        /\ \E T \in Classes : T # S /\ ClosedClass(T) /\ StrictlyInside(S, T) }

\* the indices of S in ascending order
RECURSIVE Ascending(_)
Ascending(S) ==
    IF S = {} THEN <<>>
    ELSE <<SetMin(S)>> \o Ascending(S \ {SetMin(S)})

\* the indices of S in the order of the component list that
\* find_connected_components returns for it (breadth-first from its lowest
\* index)
DiscoveryOrder(S) ==
    LET cc == find_connected_components
        c == CHOOSE c \in 1..Len(cc) : { cc[c][m] : m \in 1..Len(cc[c]) } = S
    IN  cc[c]

\* the triangles of the classes of C: class by class in ascending order of
\* their lowest index, the indices of a class in ascending order
RECURSIVE TrianglesAscending(_)
TrianglesAscending(C) ==
    IF C = {} THEN <<>>
    ELSE LET S == CHOOSE S \in C : \A T \in C : SetMin(S) <= SetMin(T)
         IN  TrianglesOf(Ascending(S)) \o TrianglesAscending(C \ {S})

\* the same, the indices of a class in discovery order
RECURSIVE TrianglesInDiscoveryOrder(_)
TrianglesInDiscoveryOrder(C) ==
    IF C = {} THEN <<>>
    ELSE LET S == CHOOSE S \in C : \A T \in C : SetMin(S) <= SetMin(T)
         IN  TrianglesOf(DiscoveryOrder(S)) \o TrianglesInDiscoveryOrder(C \ {S})

\* C16 as stated: the export writes the mesh triangles of the void components
\* and nothing else, component by component in the order they were found and
\* in ascending index order inside a component
C16_Original_ExportInIndexOrder ==
    (mesh_state = "ready" /\ exported) =>
        stl_out = TrianglesAscending(VoidClasses)

\* C16 (amended): the export writes the mesh triangles of the void components
\* and nothing else, component by component in the order they were found and,
\* inside a component, in the order of its index list (breadth-first
\* discovery from its lowest index); open components and closed components
\* that are not voids contribute nothing
C16_ExportInDiscoveryOrder ==
    (mesh_state = "ready" /\ exported) =>
        stl_out = TrianglesInDiscoveryOrder(VoidClasses)

C16_Witness ==
    /\ mesh_state = "ready" /\ exported
    /\ NumTriangles = 24 /\ Len(stl_out) = 12
    /\ stl_out[1] = triangles_[1] /\ stl_out[2] = triangles_[6]
    /\ stl_out[12] = triangles_[3]

\* C17: every AxisAlignedBoundingBox produced has min <= max on each axis:
\* the constructors throw otherwise, and compute_component_aabb returns no
\* box with min > max, whatever the pad
C17_EveryBoxHasMinLeqMax ==
    /\ box_status = "ok" =>
          \A d \in 1..3 : ScalarLeq(last_box.min[d], last_box.max[d])
    /\ box_status = "thrown" => box_op \in {"scalars", "points"}

\* --- the geometry functions
HasNaN(p) == \E d \in 1..3 : p[d] = NaN

\* make_edge has been called on g_p and g_q in both orders
EdgesMade == g_pc \in {"edges", "looked_up", "flipped", "flipped_twice"}
MapLookedUp == g_pc \in {"looked_up", "flipped", "flipped_twice"}

\* the two edges are the same canonical edge, with equal hash, and address
\* the same map entry
SameCanonicalEdge ==
    /\ EdgesMade =>
          /\ EdgeEquality(edge_pq, edge_qp)
          /\ ~PointLess(edge_pq[2], edge_pq[1])
          /\ ~PointLess(edge_qp[2], edge_qp[1])
          /\ hash_pq = hash_qp
    /\ MapLookedUp => map_found

\* C18 as stated: for all points p and q, make_edge(p, q) and make_edge(q, p)
\* are the same edge, compare equal under EdgeEquality, have the same
\* EdgeHash and address the same entry of a hash map keyed by edge
C18_Original_EdgeCanonicalForAllPoints == SameCanonicalEdge

\* the first coordinate on which p and q do not compare equal holds a NaN
UnorderedPoints(p, q) ==
    \E d \in 1..3 :
        /\ p[d] = NaN \/ q[d] = NaN
        /\ \A k \in 1..(d - 1) : DoubleEqual(p[k], q[k])

\* C18 (amended): for all points p and q without a NaN coordinate,
\* make_edge(p, q) and make_edge(q, p) are the same edge (first endpoint not
\* lexicographically after the second), compare equal under EdgeEquality,
\* have the same EdgeHash and address the same entry of a hash map; with a
\* NaN coordinate the edge does not compare equal to itself, and when the
\* points tie on the coordinates before the NaN the two calls return the
\* endpoints in opposite orders
C18_EdgeCanonicalWithoutNaN ==
    /\ (~HasNaN(g_p) /\ ~HasNaN(g_q)) => SameCanonicalEdge
    /\ (EdgesMade /\ (HasNaN(g_p) \/ HasNaN(g_q))) => ~EdgeEquality(edge_pq, edge_pq)
    /\ (EdgesMade /\ UnorderedPoints(g_p, g_q)) =>
          /\ edge_pq = <<g_q, g_p>>
          /\ edge_qp = <<g_p, g_q>>

C18_Witness ==
    /\ MapLookedUp /\ map_found
    /\ g_p = <<1, 0, 0>> /\ g_q = <<0, 1, 0>>
    /\ edge_pq = << <<0, 1, 0>>, <<1, 0, 0>> >>

\* the three vertices are pairwise different points
ThreeDistinctVertices(t) ==
    /\ ~PointEquality(t.a, t.b) /\ t.a # t.b
    /\ ~PointEquality(t.b, t.c) /\ t.b # t.c
    /\ ~PointEquality(t.c, t.a) /\ t.c # t.a

\* C19: for a triangle t with three distinct vertices and any two of its
\* vertices p, q, has_directed_edge(flip(t), p, q) = has_directed_edge(t, q, p);
\* the flip keeps the vertex set, and flipping twice restores the vertex order
C19_FlipReversesDirectedEdges ==
    LET t == Triangle(g_p, g_q, g_r)
    IN  /\ (g_pc \in {"flipped", "flipped_twice"} /\ ThreeDistinctVertices(t)) =>
              /\ \A p, q \in {g_p, g_q, g_r} :
                    has_directed_edge(flipped_once, p, q) = has_directed_edge(t, q, p)
              /\ {flipped_once.a, flipped_once.b, flipped_once.c} = {g_p, g_q, g_r}
        /\ g_pc = "flipped_twice" => flipped_twice = t

C19_Witness ==
    /\ g_pc = "flipped_twice"
    /\ ThreeDistinctVertices(Triangle(g_p, g_q, g_r))
    /\ has_directed_edge(flipped_once, g_q, g_p)
    /\ ~has_directed_edge(flipped_once, g_p, g_q)
    /\ flipped_twice # flipped_once


\* --- parse_ascii_stl, stated over the tokens of the text
\* the maximal runs of non-space characters, in input order
RECURSIVE TokensFrom(_, _)
TokensFrom(text, k) ==
    LET start == SkipSpace(text, k)
        end == SkipToken(text, start)
    IN  IF start > Len(text) THEN <<>>
        ELSE <<SubSeq(text, start, end - 1)>> \o TokensFrom(text, end)

Tokens(text) == TokensFrom(text, 1)

Numeric(tok) == Strtod(tok).ok

NumberOf(tok) == Strtod(tok).value

\* position k holds a `vertex` token that three numeric tokens follow
CompleteVertexAt(tokens, k) ==
    /\ k + 3 <= Len(tokens)
    /\ tokens[k] = VertexKeyword
    /\ \A d \in 1..3 : Numeric(tokens[k + d])

VertexAt(tokens, k) ==
    <<NumberOf(tokens[k + 1]), NumberOf(tokens[k + 2]), NumberOf(tokens[k + 3])>>

\* the vertices of all such tokens, in input order
RECURSIVE CompleteVertices(_, _)
CompleteVertices(tokens, k) ==
    IF k > Len(tokens) THEN <<>>
    ELSE IF CompleteVertexAt(tokens, k)
    THEN <<VertexAt(tokens, k)>> \o CompleteVertices(tokens, k + 1)
    ELSE CompleteVertices(tokens, k + 1)

\* the vertices read up to the first `vertex` token that a non-numeric
\* token follows before its three coordinates are complete
RECURSIVE VerticesUntilMalformed(_, _)
VerticesUntilMalformed(tokens, k) ==
    IF k > Len(tokens) THEN <<>>
    ELSE IF tokens[k] # VertexKeyword THEN VerticesUntilMalformed(tokens, k + 1)
    ELSE IF CompleteVertexAt(tokens, k)
    THEN <<VertexAt(tokens, k)>> \o VerticesUntilMalformed(tokens, k + 4)
    ELSE <<>>

\* vertices 3k, 3k+1, 3k+2 as the k-th triangle; a trailing one or two dropped
GroupedInThrees(vertices) ==
    [k \in 1..(Len(vertices) \div 3) |->
        Triangle(vertices[3 * k - 2], vertices[3 * k - 1], vertices[3 * k])]

\* some `vertex` token is followed by fewer than three numeric tokens and
\* then by a token that is no number
HasMalformedVertex(tokens) ==
    \E k \in 1..Len(tokens) :
        /\ tokens[k] = VertexKeyword
        /\ \E d \in 1..3 :
            /\ k + d <= Len(tokens)
            /\ ~Numeric(tokens[k + d])
            /\ \A c \in 1..(d - 1) : Numeric(tokens[k + c])

\* C20 (as stated): parse_ascii_stl returns floor(V/3) triangles, V the number
\* of `vertex` tokens followed by three numeric tokens, the k-th triangle made
\* of vertices 3k, 3k+1, 3k+2 in input order, every other token ignored.
C20_Original_EveryCompleteVertexCounts ==
    s_pc = "returned" =>
        parsed = GroupedInThrees(CompleteVertices(Tokens(s_text), 1))

\* C20 (amended): the same holds of the `vertex` tokens that precede the first
\* one whose coordinates are cut short by a non-numeric token; parsing stops
\* at that token, and in a text without one every complete vertex counts.
C20_VerticesUpToFirstMalformed ==
    s_pc = "returned" =>
        /\ parsed = GroupedInThrees(VerticesUntilMalformed(Tokens(s_text), 1))
        /\ ~HasMalformedVertex(Tokens(s_text)) =>
               parsed = GroupedInThrees(CompleteVertices(Tokens(s_text), 1))

\* a text read in several chunks returned two triangles, the second with
\* coordinates of its own
C20_Witness ==
    /\ s_pc = "returned"
    /\ s_chunk < Len(s_text)
    /\ Len(parsed) = 2
    /\ parsed[2].a # parsed[1].a
    /\ ~HasMalformedVertex(Tokens(s_text))


\* --- write_ascii_stl followed by parse_ascii_stl
\* the double that the written six digits of v denote
WrittenValue(v) == Strtod(FormatDouble(v)).value

WrittenPoint(p) == <<WrittenValue(p[1]), WrittenValue(p[2]), WrittenValue(p[3])>>

\* the triangles as their written decimal representation gives them back
AsWritten(ts) ==
    [k \in 1..Len(ts) |->
        Triangle(WrittenPoint(ts[k].a), WrittenPoint(ts[k].b), WrittenPoint(ts[k].c))]

\* the name holds the token `vertex`
NameHasVertexToken(name) ==
    \E k \in 1..Len(Tokens(name)) : Tokens(name)[k] = VertexKeyword

\* C21 (as stated): for every list of N triangles and every solid name,
\* parsing the text written by write_ascii_stl returns N triangles, in the
\* same order and with the same vertex order as the written list.
C21_Original_RoundTripForEveryName ==
    s_pc = "read_back" => parsed = AsWritten(w_triangles)

\* C21 (amended): the same for every solid name that holds no token `vertex`;
\* each coordinate comes back as the value of its six written digits.
C21_RoundTripWithoutVertexInName ==
    (s_pc = "read_back" /\ ~NameHasVertexToken(w_name)) =>
        /\ Len(parsed) = Len(w_triangles)
        /\ parsed = AsWritten(w_triangles)

\* two different triangles were written under a two-word name and read back,
\* the second with a coordinate that six digits do not hold
C21_Witness ==
    /\ s_pc = "read_back"
    /\ w_name = <<"a", " ", "b">>
    /\ Len(parsed) = 2
    /\ w_triangles[1] # w_triangles[2]
    /\ parsed[2] # w_triangles[2]
    /\ parsed[1] = w_triangles[1]


\* --- parse_ascii_stl, chunk by chunk and in one piece
Returned == s_pc \in {"returned", "read_back"}

\* the triangles returned when the whole text is one buffer
ParsedInOnePiece(text) ==
    consume_buffer([buffer |-> text, triangle_vertices |-> <<>>, coord_buffer |-> <<>>,
                    remaining_coords |-> 0, parsed |-> <<>>], TRUE).parsed

\* C30: the result of parse_ascii_stl does not depend on where the chunk
\* boundaries fall: for every text and every chunk size the streaming parser
\* returns the triangle list it returns when the whole text is one buffer.
C30_ResultIndependentOfChunks ==
    Returned => parsed = ParsedInOnePiece(s_text)

\* the two-facet text was read one character at a time, so that every
\* keyword and every number was split, and both triangles were returned
C30_Witness ==
    /\ s_pc = "returned"
    /\ s_chunk = 1
    /\ s_text = TwoFacets
    /\ Len(parsed) = 2


\* --- Polyline, stated over the segments as a set of vertex pairs
BuiltFromSegments == p_pc = "built" /\ representation = "kVerboseSegments"

ConstructedFromSegments == p_pc # "start" /\ representation = "kVerboseSegments"

NumSegments(buf) == Len(buf) \div 2

SegmentAt(buf, seg) == {buf[2 * seg - 1], buf[2 * seg]}

SegmentsOf(buf) == { SegmentAt(buf, seg) : seg \in 1..NumSegments(buf) }

VerticesOf(buf) == { buf[k] : k \in 1..Len(buf) }

\* number of segment endpoints that are v
DegreeOf(buf, v) == Cardinality({ k \in 1..Len(buf) : buf[k] = v })

\* the vertices joined to a vertex of S by a path of segments
RECURSIVE JoinedTo(_, _)
JoinedTo(segs, S) ==
    LET T == S \cup UNION { e \in segs : e \cap S # {} }
    IN  IF T = S THEN S ELSE JoinedTo(segs, T)

\* well-formed, no segment twice, no segment from a vertex to itself, and
\* every vertex joined to every other
SimpleAndConnected(buf) ==
    /\ buf # <<>> /\ Len(buf) % 2 = 0
    /\ Cardinality(SegmentsOf(buf)) = NumSegments(buf)
    /\ \A e \in SegmentsOf(buf) : Cardinality(e) = 2
    /\ JoinedTo(SegmentsOf(buf), {buf[1]}) = VerticesOf(buf)

ChainEnds(buf) == { v \in VerticesOf(buf) : DegreeOf(buf, v) = 1 }

IsSingleOpenChain(buf) ==
    /\ SimpleAndConnected(buf)
    /\ \A v \in VerticesOf(buf) : DegreeOf(buf, v) <= 2
    /\ Cardinality(ChainEnds(buf)) = 2

IsSingleClosedPolygon(buf) ==
    /\ SimpleAndConnected(buf)
    /\ \A v \in VerticesOf(buf) : DegreeOf(buf, v) = 2

\* the path through the segments that continues the given one
RECURSIVE PathAlong(_, _)
PathAlong(segs, path) ==
    LET last == path[Len(path)]
        seen == { path[k] : k \in 1..Len(path) }
        onward == { v \in (UNION segs) \ seen : {last, v} \in segs }
    IN  IF onward = {} THEN path
        ELSE PathAlong(segs, Append(path, CHOOSE v \in onward : TRUE))

\* the chain's vertices in path order from the endpoint with the smaller
\* index; a function of the set of segments alone
PathOrder(buf) == PathAlong(SegmentsOf(buf), <<Smallest(ChainEnds(buf))>>)

\* C22: for every set of segments that forms a single open chain the
\* Polyline is built and its compressed ordering is the chain's vertices in
\* path order from the endpoint with the smaller index, whatever the order of
\* the segments in the buffer and of the two indices inside a segment.
C22_OpenChainOrderingIsPathOrder ==
    (ConstructedFromSegments /\ IsSingleOpenChain(data)) =>
        /\ p_pc = "built"
        /\ compressed_segments_ = PathOrder(data)

\* the scrambled chain 0-1-2-3-4 of the tests was compressed
C22_Witness ==
    /\ BuiltFromSegments
    /\ data = <<3, 4, 0, 1, 2, 1, 3, 2>>
    /\ compressed_segments_ = <<0, 1, 2, 3, 4>>

\* the buffers that hold the same segments in another order, with the two
\* indices of some segments swapped
Rearrangements(buf) ==
    LET n == NumSegments(buf)
        orders == { f \in [1..n -> 1..n] : \A a, b \in 1..n : f[a] = f[b] => a = b }
    IN  { [k \in 1..(2 * n) |->
              LET seg == f[(k + 1) \div 2]
                  second == (k % 2 = 0) # swap[(k + 1) \div 2]
              IN  IF second THEN buf[2 * seg] ELSE buf[2 * seg - 1]]
          : f \in orders, swap \in [1..n -> BOOLEAN] }

\* C23: for every set of segments that forms a single closed polygon the
\* compressed ordering is the same for every permutation of the segments and
\* every swap of the two indices inside a segment.
C23_PolygonOrderingIsDeterministic ==
    (BuiltFromSegments /\ IsSingleClosedPolygon(data)) =>
        \A other \in Rearrangements(data) :
            \A r \in {ConstructPolyline("kVerboseSegments", other)} :
                r.ordering = compressed_segments_

\* no participating vertex has degree 1, every one has degree 2
FormsClosedLoop(buf) == \A v \in VerticesOf(buf) : DegreeOf(buf, v) = 2

\* C24: for every Polyline built from verbose segments, IsPolygon() is true
\* and GetType() is kClosed exactly when the segments form a closed loop (every
\* participating vertex has degree 2), otherwise they are false and kOpen;
\* GetType() agrees with IsPolygon().
C24_PolygonIffClosedLoop ==
    BuiltFromSegments =>
        /\ IsPolygon(compressed_segments_) <=> FormsClosedLoop(data)
        /\ type_ = (IF FormsClosedLoop(data) THEN "kClosed" ELSE "kOpen")
        /\ p_is_polygon # "unset" => p_is_polygon = FormsClosedLoop(data)
        /\ p_get_type # "unset" => p_get_type = type_
        /\ (p_is_polygon # "unset" /\ p_get_type # "unset") =>
               (p_get_type = "kClosed" <=> p_is_polygon)

\* C25: constructing from verbose segments throws whenever some vertex occurs
\* in more than two segment endpoints or the number of degree-1 vertices is
\* neither 0 nor 2, for buffers of any length, and on an empty buffer and on
\* an odd number of entries.
C25_InvalidSegmentsThrow ==
    (/\ ConstructedFromSegments
     /\ \/ data = <<>>
        \/ Len(data) % 2 # 0
        \/ \E v \in VerticesOf(data) : DegreeOf(data, v) > 2
        \/ Cardinality(ChainEnds(data)) \notin {0, 2})
    => p_pc = "threw"

\* the ordering holds v exactly once, the repeated start of a polygon aside
AppearsOnce(ordering, v) ==
    LET n == IF IsPolygon(ordering) THEN Len(ordering) - 1 ELSE Len(ordering)
    IN  Cardinality({ k \in 1..n : ordering[k] = v }) = 1

JoinsConsecutive(ordering, e) ==
    \E k \in 1..(Len(ordering) - 1) : {ordering[k], ordering[k + 1]} = e

\* C29: every Polyline built from verbose segments has a compressed ordering
\* that covers the input: each vertex of a segment appears in it exactly once
\* (the start of a polygon, its smallest vertex, once more at the end), and
\* every input segment joins two consecutive entries.
C29_OrderingCoversInput ==
    BuiltFromSegments =>
        /\ \A v \in VerticesOf(data) : AppearsOnce(compressed_segments_, v)
        /\ \A e \in SegmentsOf(data) : JoinsConsecutive(compressed_segments_, e)
        /\ IsPolygon(compressed_segments_) =>
               compressed_segments_[1] = Smallest(VerticesOf(data))


\* --- the flip decision of reorient_inconsistent_triangles, step by step
\* an iteration of the BFS loop is taken from this state to the next
BfsIteration == r_pc = "running" /\ queue # <<>> /\ r_pc' = "running"

\* the triangles of the mesh that share an edge with triangle t and are not
\* marked visited: the ones the iteration on t discovers
Discovered(t) ==
    { n \in 0..(NumTriangles - 1) :
        n # t /\ ~visited_triangles[n] /\ SharedEdges(t, n) # {} }

\* the edge through which triangle t discovers n: the first of t's edges
\* ab, bc, ca that n is incident to
DiscoveryEdge(t, n) ==
    LET edges == TriangleEdges(triangles_[t + 1])
        first == CHOOSE j \in 1..3 :
                    /\ n \in Incident(triangles_, edges[j])
                    /\ \A j2 \in 1..(j - 1) : n \notin Incident(triangles_, edges[j2])
    IN  edges[first]

\* the stored triangles t and n traverse the discovery edge in the same direction
StoredPairInconsistent(t, n) ==
    ~are_orientations_consistent(triangles_[t + 1], triangles_[n + 1],
                                 DiscoveryEdge(t, n))

\* the positions of the result the iteration appended
AppendedFlips == (Len(flipped_triangles) + 1)..Len(flipped_triangles')

\* C26: an iteration of the reorientation BFS on the dequeued triangle t
\* appends to the result exactly the b/c-swapped copies of the triangles n it
\* discovers whose stored geometry is inconsistent with the stored geometry of
\* t across the discovery edge, and marks visited and enqueues every
\* discovered n whatever the outcome
C26_FlipIffInconsistentWithDiscoverer ==
    [][BfsIteration =>
         LET t == Head(queue)
         IN  /\ InRange(t)
             /\ \A n \in Discovered(t) :
                   /\ visited_triangles'[n]
                   /\ \E k \in 1..Len(queue') : queue'[k] = n
             /\ { flipped_from'[k] : k \in AppendedFlips } =
                   { n \in Discovered(t) : StoredPairInconsistent(t, n) }
             /\ \A k \in AppendedFlips :
                   /\ InRange(flipped_from'[k])
                   /\ flipped_triangles'[k] =
                         flip_triangle(triangles_[flipped_from'[k] + 1])
             /\ \A k1, k2 \in AppendedFlips :
                   flipped_from'[k1] = flipped_from'[k2] => k1 = k2]_vars

\* the same statement for the iterations that stay inside the two containers
C26_FlipIffInconsistentWithinBounds ==
    [][(BfsIteration /\ ~oob_access') =>
         LET t == Head(queue)
         IN  /\ InRange(t)
             /\ \A n \in Discovered(t) :
                   /\ visited_triangles'[n]
                   /\ \E k \in 1..Len(queue') : queue'[k] = n
             /\ { flipped_from'[k] : k \in AppendedFlips } =
                   { n \in Discovered(t) : StoredPairInconsistent(t, n) }
             /\ \A k \in AppendedFlips :
                   flipped_triangles'[k] =
                      flip_triangle(triangles_[flipped_from'[k] + 1])]_vars

\* an iteration within bounds discovers two triangles and flips one of them only
C26_WithinBoundsWitness ==
    /\ r_pc = "running" /\ ~oob_access
    /\ Len(queue) >= 2
    /\ Len(flipped_triangles) = 1


\* --- the queues of the two breadth-first searches
\* every index the reorientation BFS has enqueued so far, in enqueue order
EnqueuedSoFar == dequeued \o queue

\* the run of reorient_inconsistent_triangles has passed its seed test
BfsStarted == mesh_state = "ready" /\ r_pc # "idle" /\ SeedInRange

\* C27: every index either BFS enqueues is a triangle index that is already
\* marked visited, no index is enqueued twice, at most N indices are dequeued,
\* and the reorientation ends by returning; find_connected_components
\* dequeues every triangle index at most once
C27_EachIndexEnqueuedOnce ==
    /\ BfsStarted =>
          /\ \A k \in 1..Len(EnqueuedSoFar) :
                /\ InRange(EnqueuedSoFar[k])
                /\ visited_triangles[EnqueuedSoFar[k]]
          /\ \A k1, k2 \in 1..Len(EnqueuedSoFar) :
                EnqueuedSoFar[k1] = EnqueuedSoFar[k2] => k1 = k2
          /\ Len(dequeued) <= NumTriangles
          /\ r_pc # "crashed"
    /\ components_found =>
          /\ \A c \in 1..Len(components) :
                \A k \in 1..Len(components[c]) : InRange(components[c][k])
          /\ \A c1, c2 \in 1..Len(components) :
                \A k1 \in 1..Len(components[c1]), k2 \in 1..Len(components[c2]) :
                   components[c1][k1] = components[c2][k2] => (c1 = c2 /\ k1 = k2)

\* the statement on the reorientation queue for the runs that stay inside
\* the two containers
C27_EachIndexEnqueuedOnceWithinBounds ==
    (BfsStarted /\ ~oob_access) =>
        /\ \A k \in 1..Len(EnqueuedSoFar) :
              /\ InRange(EnqueuedSoFar[k])
              /\ visited_triangles[EnqueuedSoFar[k]]
        /\ \A k1, k2 \in 1..Len(EnqueuedSoFar) :
              EnqueuedSoFar[k1] = EnqueuedSoFar[k2] => k1 = k2
        /\ Len(dequeued) <= NumTriangles
        /\ r_pc # "crashed"

\* a closed mesh of four or more triangles, hence with cycles of adjacent
\* triangles, has been walked to the end
C27_WithinBoundsWitness ==
    /\ BfsStarted /\ r_pc = "returned" /\ ~oob_access
    /\ NumTriangles >= 4
    /\ Len(dequeued) = NumTriangles


\* --- the box of a component
\* the coordinates on axis d of the vertices of the triangles of a component
ComponentCoordinates(component, d) ==
    { triangles_[component[k] + 1][v][d] :
         k \in 1..Len(component), v \in VertexNames }

\* compute_component_aabb has returned for a pad >= 0
ComponentBoxed == mesh_state = "ready" /\ box_op = "component" /\ box_pad >= 0

\* no vertex of the component has a NaN coordinate
ComponentWithoutNaN(component) ==
    \A k \in 1..Len(component) : ~HasNaNCoordinate(triangles_[component[k] + 1])

\* the box of compute_component_aabb is the extent of the component widened
\* by pad, holds every vertex and is the same for every order of the list
BoxIsPaddedExtent ==
    /\ \A d \in 1..3 :
          /\ last_box.min[d] =
                ScalarAdd(Scalar(SetMin(ComponentCoordinates(box_component, d))),
                          -box_pad)
          /\ last_box.max[d] =
                ScalarAdd(Scalar(SetMax(ComponentCoordinates(box_component, d))),
                          box_pad)
          /\ \A x \in ComponentCoordinates(box_component, d) :
                /\ ScalarLeq(last_box.min[d], Scalar(x))
                /\ ScalarLeq(Scalar(x), last_box.max[d])
    /\ \A order \in ComponentOrders :
          compute_component_aabb(Arranged(box_component, order), box_pad) = last_box

\* C28 as stated: for a non-empty component and pad >= 0 the box of
\* compute_component_aabb has on each axis min = smallest vertex coordinate
\* of the component - pad and max = largest such coordinate + pad; it
\* contains every vertex of the component and is the same for every order of
\* the component list
C28_Original_ComponentBoxIsPaddedExtent == ComponentBoxed => BoxIsPaddedExtent

\* C28 (amended): the same for a non-empty component none of whose vertices
\* has a NaN coordinate
C28_BoxWithoutNaNIsPaddedExtent ==
    (ComponentBoxed /\ ComponentWithoutNaN(box_component)) => BoxIsPaddedExtent

\* a component of several triangles without NaN, listed in another order
\* than it was found in, has been boxed with a positive pad, and its box is
\* larger than the box of its first triangle
C28_Witness ==
    /\ ComponentBoxed /\ box_pad = 1
    /\ ComponentWithoutNaN(box_component)
    /\ Len(box_component) >= 2
    /\ box_component[1] > box_component[2]
    /\ compute_component_aabb(<<box_component[1]>>, box_pad) # last_box

====
